---- MODULE Spec2Model ----
(***************************************************************************)
(* Model of the print-dispatch node of electron-hiprint: the local socket  *)
(* server handlers (tools/utils.js, given as src/main.js), the relay       *)
(* client handlers, the fragment assembler with its sweep timer, the       *)
(* single-slot PRINT_RUNNER queue and the "do" handler of the print window *)
(* (src/print.js, given as src/unnamed/part_000, second half).             *)
(*                                                                         *)
(* Strings are TLA+ strings; a missing (undefined) field and the empty     *)
(* string are both written "" (both are falsy in every test the code makes *)
(* on them).  Time is counted in minutes.                                  *)
(***************************************************************************)
EXTENDS Integers, Sequences, FiniteSets, TLC

VARIABLES
  LOCAL_CLIENT_ID,          \* global.LOCAL_CLIENT_ID
  TRANSIT_PRINTERS_CACHE,   \* global.TRANSIT_PRINTERS_CACHE, in insertion order
  sockets,                  \* SOCKET_SERVER.sockets.sockets: ids of connected sockets
  clientConnected,          \* global.SOCKET_CLIENT && global.SOCKET_CLIENT.connected
  defaultPrinter,           \* store.get("defaultPrinter")
  platform,                 \* process.platform
  PRINT_FRAGMENTS_MAPPING,  \* global.PRINT_FRAGMENTS_MAPPING
  isWatching,               \* closure flag of generateWatchTask
  watchTimers,              \* pending sweep timeouts: minutes left of each
  runnerQueue,              \* PRINT_RUNNER: tasks added and not yet started
  runnerRunning,            \* PRINT_RUNNER: number of tasks started and not done
  PRINT_RUNNER_DONE,        \* global.PRINT_RUNNER_DONE: taskIds holding a done callback
  printWindow,              \* "print-new" messages delivered to PRINT_WINDOW, "do" not yet received
  backend,                  \* jobs inside the "do" handler waiting for a backend promise/callback
  polls,                    \* checkPrinterStatus instances (setInterval + polls in flight)
  out,                      \* socket events emitted by the node, in order
  printLogs,                \* records appended by logPrintResult, in order
  nextTaskId,               \* number of taskIds generated so far (uuidv7 is fresh each time)
  nextSeq,                  \* number of submissions received so far
  hist,                     \* history of the queue: adds, starts, done calls
  token,                    \* store.get("token"): the token asked of local connections ("": none)
  refused,                  \* connections the middleware of the local server turned away
  refreshes,                \* "refreshPrinterList" requests of local sockets and their replies
  AUTO_OPEN_URL_SHOWN,      \* global.AUTO_OPEN_URL_SHOWN
  loadUrl                   \* loadUrlWithRetry: its position, its counter, the page shown

vars == << LOCAL_CLIENT_ID, TRANSIT_PRINTERS_CACHE, sockets, clientConnected,
           defaultPrinter, platform, PRINT_FRAGMENTS_MAPPING, isWatching,
           watchTimers, runnerQueue, runnerRunning, PRINT_RUNNER_DONE,
           printWindow, backend, polls, out, printLogs, nextTaskId, nextSeq, hist,
           token, refused, refreshes, AUTO_OPEN_URL_SHOWN, loadUrl >>

\* the state of the main process outside the print path
mainVars == << token, refused, refreshes, AUTO_OPEN_URL_SHOWN, loadUrl >>

-----------------------------------------------------------------------------
(* Bounds of the model *)

MaxJobs == 3        \* submissions (news, fragments, test prints) per behaviour
MaxDoJobs == 2      \* submissions per behaviour when every kind of job is sent
MaxPolls == 2       \* getPrintersAsync calls of one checkPrinterStatus in flight at once
MaxTotal == 3       \* largest fragment count a caller declares
MaxFragments == 3   \* fragments sent per behaviour
MaxRouted == 2      \* submissions per behaviour when targets are named
MaxDirectory == 3   \* directory entries after which no more broadcasts are sent
MaxRetries == 6     \* largest maxRetries loadUrlWithRetry is called with
MaxRefreshes == 2   \* "refreshPrinterList" requests per behaviour
MaxRepeats == 1     \* "do" messages repeated for jobs already handled

-----------------------------------------------------------------------------
(* Program constants *)

ConcurrencyTwo == 1 + 1     \* a runner built with two slots
Concurrency == 1            \* new TaskRunner({ concurrency: 1 })
ClientIdMinLen == 15        \* printerName.length >= 15
CheckInterval == 5          \* checkInterval: 5 (minutes)
Expire == 10                \* expire: 10 (minutes)

-----------------------------------------------------------------------------
(* Strings *)

\* s.includes('] ')
Includes(s) == \E i \in 1..(Len(s) - 1) : SubSeq(s, i, i + 1) = "] "

\* s.indexOf('] '), 1-based; only used when Includes(s)
IndexOf(s) ==
  CHOOSE i \in 1..(Len(s) - 1) :
    /\ SubSeq(s, i, i + 1) = "] "
    /\ \A j \in 1..(i - 1) : SubSeq(s, j, j + 1) # "] "

\* if (s && s.includes('] ')) s = s.substring(s.indexOf('] ') + 2)
StripPrefix(s) ==
  IF s # "" /\ Includes(s) THEN SubSeq(s, IndexOf(s) + 2, Len(s)) ELSE s

\* a test that takes only strings of twice the length for node identifiers
LooksLikeLongClientId(s) == s # "" /\ Len(s) >= ClientIdMinLen + ClientIdMinLen

\* const looksLikeClientId = s && s.length >= 15
LooksLikeClientId(s) == s # "" /\ Len(s) >= ClientIdMinLen

\* s.startsWith('local-')
StartsWithLocal(s) == Len(s) >= 6 /\ SubSeq(s, 1, 6) = "local-"

-----------------------------------------------------------------------------
(* Identifiers and names used as inputs *)

ProvisionalId == "local-1730000000000"   \* the initial "local-*" value of LOCAL_CLIENT_ID
S1 == "sock-web-00000000001"             \* socket.id of a web client of the local server
S2 == "sock-web-00000000002"
RelaySocketId == "relay-conn-000000001"  \* client.id of the relay connection
NodeA == "node-A-0000000000001"          \* clientIds handed out by the relay
NodeB == "node-B-0000000000001"
LocalIp == "10.0.0.1"                    \* _address.ip()
OtherIp == "10.0.0.2"

SocketIds == {S1, S2}

\* the null of a failed lookup in the printer directory
NoRecord == [displayName |-> "", originalName |-> "", clientId |-> ""]

\* A print request (the "data" object of the handlers).  seq, origin, target,
\* route and arrivals are history fields: the submission's serial number, the
\* handler that admitted it, the target it was submitted with, what the
\* routing decision of socket.on("news") was for it when it was admitted and,
\* for a reassembled job, the fragments it was built from in arrival order
\* (index, chunk and serial number of each).  resolved, self and relay are
\* history fields too: what queryPrinterCache gave for the target, what
\* LOCAL_CLIENT_ID was and whether the relay was connected when the job came
\* in; from is the local socket that submitted it.
MkData(type, printer, client, templateId, replyId, blob) ==
  [ type |-> type, printer |-> printer, client |-> client,
    templateId |-> templateId, replyId |-> replyId, pdf_blob |-> blob,
    html |-> "", socketId |-> "", taskId |-> 0, clientType |-> "",
    seq |-> 0, origin |-> "", target |-> "", route |-> "", arrivals |-> <<>>,
    resolved |-> NoRecord, self |-> "", relay |-> FALSE, from |-> "" ]

-----------------------------------------------------------------------------
(* PRINT_RUNNER: a TaskRunner of concurrent-tasks with concurrency 1.      *)
(* The runner state threaded through the handlers is the record            *)
(*   [queue, running, done, window, nextTaskId, hist]                      *)
(* of the variables a task start or a done call changes.                   *)

RunnerState ==
  [ queue |-> runnerQueue, running |-> runnerRunning, done |-> PRINT_RUNNER_DONE,
    window |-> printWindow, nextTaskId |-> nextTaskId, hist |-> hist ]

\* The body of every task added to PRINT_RUNNER:
\*   data.socketId = ...; data.taskId = uuidv7(); data.clientType = ...;
\*   PRINT_WINDOW.webContents.send("print-new", printData);
\*   PRINT_RUNNER_DONE[data.taskId] = done;
\* task.printer is the printer field of the message sent to the print window.
StartTask(R, task) ==
  LET id == R.nextTaskId + 1
      msg == [task.data EXCEPT !.socketId = task.socketId, !.taskId = id,
                               !.clientType = task.clientType,
                               !.printer = task.printer]
  IN [ R EXCEPT !.running = @ + 1,
                !.nextTaskId = id,
                !.window = @ \cup {msg},
                !.done = @ \cup {id},
                !.hist = [@ EXCEPT !.started = Append(@, task.data.seq)] ]

\* TaskRunner: start queued tasks, oldest first, while a slot is free
RECURSIVE RunnerRun(_)
RunnerRun(R) ==
  IF R.queue # <<>> /\ R.running < Concurrency
  THEN RunnerRun(StartTask([R EXCEPT !.queue = Tail(@)], Head(R.queue)))
  ELSE R

\* a runner that puts a new task in front of the waiting ones
EnqueueFirst(queue, task) == <<task>> \o queue

\* TaskRunner.add(task): the task joins the end of the list
Enqueue(queue, task) == Append(queue, task)

\* a runner that takes every task twice
RunnerAddTwice(R, task) ==
  RunnerRun([R EXCEPT !.queue = Enqueue(Enqueue(@, task), task),
                      !.hist = [@ EXCEPT !.added = Append(@, task.data.seq)]])

\* PRINT_RUNNER.add((done) => {...})
RunnerAdd(R, task) ==
  RunnerRun([R EXCEPT !.queue = Enqueue(@, task),
                      !.hist = [@ EXCEPT !.added = Append(@, task.data.seq)]])

\* the done callback handed to a task: frees the slot and starts the next task
RunnerDone(R, job) ==
  RunnerRun([R EXCEPT !.running = @ - 1,
                      !.hist = [@ EXCEPT !.done = Append(@, job.seq)]])

\* the variables of the runner state after a handler
SetRunner(R) ==
  /\ runnerQueue' = R.queue
  /\ runnerRunning' = R.running
  /\ PRINT_RUNNER_DONE' = R.done
  /\ printWindow' = R.window
  /\ nextTaskId' = R.nextTaskId
  /\ hist' = R.hist

runnerVars == << runnerQueue, runnerRunning, PRINT_RUNNER_DONE, printWindow,
                 nextTaskId, hist >>

-----------------------------------------------------------------------------
(* Printer directory *)

\* TRANSIT_PRINTERS_CACHE[key], as an index into the insertion order (0: no entry)
CacheIndex(cache, key) ==
  IF \E i \in 1..Len(cache) : cache[i].displayName = key
  THEN CHOOSE i \in 1..Len(cache) : cache[i].displayName = key
  ELSE 0

\* first entry, in Object.entries order, among those at the indices hits
FirstMatch(cache, hits) ==
  IF hits # {}
  THEN cache[CHOOSE i \in hits : \A j \in hits : i <= j]
  ELSE NoRecord

\* a lookup whose name scan compares raw names only
queryByRawNameOnly(cache, printerName) ==
  LET cleanName == StripPrefix(printerName)
      ById == { i \in 1..Len(cache) : cache[i].clientId = printerName }
      ByName == { i \in 1..Len(cache) : cache[i].originalName = cleanName }
  IN IF CacheIndex(cache, printerName) # 0
       THEN cache[CacheIndex(cache, printerName)]
     ELSE IF LooksLikeClientId(printerName) /\ ById # {}
       THEN FirstMatch(cache, ById)
     ELSE FirstMatch(cache, ByName)

\* queryPrinterCache(printerName); NoRecord stands for null
queryPrinterCache(cache, printerName) ==
  LET cleanName == StripPrefix(printerName)
      ById == { i \in 1..Len(cache) : cache[i].clientId = printerName }
      ByName == { i \in 1..Len(cache) :
                    \/ cache[i].originalName = cleanName
                    \/ StripPrefix(cache[i].displayName) = cleanName }
  IN IF CacheIndex(cache, printerName) # 0
       THEN cache[CacheIndex(cache, printerName)]
     ELSE IF LooksLikeClientId(printerName) /\ ById # {}
       THEN FirstMatch(cache, ById)
     ELSE FirstMatch(cache, ByName)

-----------------------------------------------------------------------------
(* Events emitted on sockets *)

\* socket.emit(ev, {msg, templateId, replyId}) and socket.emit("news", data)
Ev(to, ev, d) ==
  [ to |-> to, ev |-> ev, seq |-> d.seq, templateId |-> d.templateId,
    replyId |-> d.replyId, client |-> d.client, printer |-> d.printer,
    origin |-> d.origin, target |-> d.target, resolved |-> d.resolved, self |-> d.self,
    relay |-> d.relay, from |-> d.from ]

\* a task closure of PRINT_RUNNER.add
Task(d, socketId, clientType, printer) ==
  [ data |-> d, socketId |-> socketId, clientType |-> clientType, printer |-> printer ]

-----------------------------------------------------------------------------
(* Local server: initServeEvent *)

\* server.on("connect"): adopt socket.id while LOCAL_CLIENT_ID is still "local-*"
ServerConnect(s) ==
  /\ s \notin sockets
  /\ sockets' = sockets \cup {s}
  /\ LOCAL_CLIENT_ID' =
       IF LOCAL_CLIENT_ID # "" /\ StartsWithLocal(LOCAL_CLIENT_ID) THEN s ELSE LOCAL_CLIENT_ID
  /\ UNCHANGED << TRANSIT_PRINTERS_CACHE, clientConnected, defaultPrinter, platform, mainVars,
                  PRINT_FRAGMENTS_MAPPING, isWatching, watchTimers, runnerVars,
                  backend, polls, out, printLogs, nextSeq >>

\* socket.on("disconnect"): the socket leaves SOCKET_SERVER.sockets.sockets
ServerDisconnect(s) ==
  /\ s \in sockets
  /\ sockets' = sockets \ {s}
  /\ UNCHANGED << LOCAL_CLIENT_ID, TRANSIT_PRINTERS_CACHE, clientConnected, defaultPrinter,
                  platform, mainVars, PRINT_FRAGMENTS_MAPPING, isWatching, watchTimers, runnerVars,
                  backend, polls, out, printLogs, nextSeq >>

\* a routing decision that turns to the relay before looking for the socket
NewsRouteRelayFirst(s, d) ==
  LET targetClientId == d.printer
      looksLikeClientId == LooksLikeClientId(targetClientId)
      cacheResult == queryPrinterCache(TRANSIT_PRINTERS_CACHE, d.printer)
  IN IF looksLikeClientId /\ targetClientId = LOCAL_CLIENT_ID THEN "local"
     ELSE IF targetClientId # "" /\ targetClientId # s /\ looksLikeClientId
       THEN IF cacheResult # NoRecord /\ ~clientConnected THEN "reject"
            ELSE IF clientConnected THEN "relay"
            ELSE IF targetClientId \in sockets THEN "peer"
            ELSE "reject"
     ELSE "default"

\* a routing decision that turns away a short target the directory does not
\* know while the relay is connected
NewsRouteShortRejected(s, d) ==
  LET targetClientId == d.printer
      looksLikeClientId == LooksLikeClientId(targetClientId)
      cacheResult == queryPrinterCache(TRANSIT_PRINTERS_CACHE, d.printer)
  IN IF looksLikeClientId /\ targetClientId = LOCAL_CLIENT_ID THEN "local"
     ELSE IF targetClientId # "" /\ targetClientId # s /\ looksLikeClientId
       THEN IF cacheResult # NoRecord /\ ~clientConnected THEN "reject"
            ELSE IF targetClientId \in sockets THEN "peer"
            ELSE IF clientConnected THEN "relay"
            ELSE "reject"
     ELSE IF targetClientId # "" /\ clientConnected /\ cacheResult = NoRecord THEN "reject"
     ELSE "default"

\* the routing decision of socket.on("news") for data d arriving on socket s:
\* "local" (first branch), "default" (last branch), "reject", "peer", "relay"
NewsRoute(s, d) ==
  LET targetClientId == d.printer
      looksLikeClientId == LooksLikeClientId(targetClientId)
      cacheResult == queryPrinterCache(TRANSIT_PRINTERS_CACHE, d.printer)
  IN IF looksLikeClientId /\ targetClientId = LOCAL_CLIENT_ID THEN "local"
     ELSE IF targetClientId # "" /\ targetClientId # s /\ looksLikeClientId
       THEN IF cacheResult # NoRecord /\ ~clientConnected THEN "reject"
            ELSE IF targetClientId \in sockets THEN "peer"
            ELSE IF clientConnected THEN "relay"
            ELSE "reject"
     ELSE "default"

\* socket.on("news", data)
News(s, data) ==
  LET route == NewsRoute(s, data)
      d == [data EXCEPT !.seq = nextSeq + 1, !.origin = "news", !.target = data.printer,
                        !.route = route,
                        !.resolved = queryPrinterCache(TRANSIT_PRINTERS_CACHE, data.printer),
                        !.self = LOCAL_CLIENT_ID, !.relay = clientConnected,
                        !.from = s]
      localPrinter == StripPrefix(defaultPrinter)
      forwardData == [d EXCEPT !.client = d.printer, !.printer = StripPrefix(d.printer)]
  IN /\ s \in sockets
     /\ nextSeq' = nextSeq + 1
     /\ CASE route = "local" ->
               /\ SetRunner(RunnerAdd(RunnerState, Task(d, s, "local", localPrinter)))
               /\ out' = out
          [] route = "default" ->
               /\ SetRunner(RunnerAdd(RunnerState, Task(d, s, "local", d.printer)))
               /\ out' = out
          [] route = "peer" ->
               /\ out' = Append(out, Ev(d.printer, "news", d))
               /\ UNCHANGED runnerVars
          [] route = "relay" ->
               /\ out' = Append(out, Ev(RelaySocketId, "news", forwardData))
               /\ UNCHANGED runnerVars
          [] route = "reject" ->
               /\ out' = Append(out, Ev(s, "error", d))
               /\ UNCHANGED runnerVars
     /\ UNCHANGED << LOCAL_CLIENT_ID, TRANSIT_PRINTERS_CACHE, sockets, clientConnected,
                     defaultPrinter, platform, mainVars, PRINT_FRAGMENTS_MAPPING, isWatching,
                     watchTimers, backend, polls, printLogs >>

-----------------------------------------------------------------------------
(* Fragment assembler *)

\* An array slot is <<>> (never assigned) or <<chunk>>.
\* fragments[index] = htmlFragment on a JavaScript array (index counted from 0)
SetSlot(fragments, index, chunk) ==
  [ i \in 1..(IF index + 1 > Len(fragments) THEN index + 1 ELSE Len(fragments)) |->
      IF i = index + 1 THEN <<chunk>>
      ELSE IF i <= Len(fragments) THEN fragments[i] ELSE <<>> ]

\* fragments.join(""): an empty slot joins as the empty string
RECURSIVE Join(_)
Join(fragments) ==
  IF fragments = <<>> THEN ""
  ELSE (IF Head(fragments) = <<>> THEN "" ELSE Head(fragments)[1]) \o Join(Tail(fragments))

\* an assembler that pushes each fragment at the end of the array
StoreFragmentAtEnd(fragments, index, chunk) == SetSlot(fragments, Len(fragments), chunk)

\* where the handler puts the fragment: currentInfo.fragments[index] = htmlFragment
StoreFragment(fragments, index, chunk) == SetSlot(fragments, index, chunk)

\* delete obj[id]
Delete(map, id) == [ i \in (DOMAIN map) \ {id} |-> map[i] ]

\* obj[id] = value
Put(map, id, value) == [ i \in (DOMAIN map) \cup {id} |-> IF i = id THEN value ELSE map[i] ]

\* a startWatch() that does not look at isWatching
StartWatchAgain ==
  /\ isWatching' = TRUE
  /\ watchTimers' = Append(watchTimers, CheckInterval)

\* watchTaskInstance.startWatch(): if (isWatching) return; this.createWatchTimeout()
StartWatch ==
  IF isWatching
  THEN UNCHANGED << isWatching, watchTimers >>
  ELSE /\ isWatching' = TRUE
       /\ watchTimers' = Append(watchTimers, CheckInterval)

\* socket.on("printByFragments", data); arrivals is the history of the set
PrintByFragments(s, data, id, total, index, chunk) ==
  LET fresh == [ total |-> total, fragments |-> <<>>, count |-> 0, age |-> 0,
                 arrivals |-> <<>> ]
      before == IF id \in DOMAIN PRINT_FRAGMENTS_MAPPING
                THEN PRINT_FRAGMENTS_MAPPING[id] ELSE fresh
      currentInfo == [ before EXCEPT
                         !.fragments = StoreFragment(@, index, chunk),
                         !.count = @ + 1,
                         !.age = 0,
                         !.arrivals = Append(@, [ index |-> index, chunk |-> chunk,
                                                  seq |-> nextSeq + 1, from |-> s ]) ]
      d == [ data EXCEPT !.seq = nextSeq + 1, !.origin = "fragments",
                         !.target = data.printer,
                         !.route = NewsRoute(s, data),
                         !.html = Join(currentInfo.fragments),
                         !.arrivals = currentInfo.arrivals ]
  IN /\ s \in sockets
     /\ nextSeq' = nextSeq + 1
     /\ IF currentInfo.count = currentInfo.total
        THEN /\ PRINT_FRAGMENTS_MAPPING' = Delete(PRINT_FRAGMENTS_MAPPING, id)
             /\ SetRunner(RunnerAdd(RunnerState, Task(d, s, "local", d.printer)))
        ELSE /\ PRINT_FRAGMENTS_MAPPING' = Put(PRINT_FRAGMENTS_MAPPING, id, currentInfo)
             /\ UNCHANGED runnerVars
     /\ StartWatch
     /\ UNCHANGED << LOCAL_CLIENT_ID, TRANSIT_PRINTERS_CACHE, sockets, clientConnected,
                     defaultPrinter, platform, mainVars, backend, polls, out, printLogs >>

\* a sweep that finds no set old enough
NeverExpired(fragmentInfo) == FALSE

\* a sweep that takes the check interval for the expiry window
ExpiredAtInterval(fragmentInfo) == fragmentInfo.age > CheckInterval

\* the test of clearFragmentsWhichIsExpired on one set:
\*   currentTimeStamp - updateTime > realConfig.expire * 60 * 1000
IsExpired(fragmentInfo) == fragmentInfo.age > Expire

\* a sweep that stops watching whether or not sets remain
SweepOnce(k) ==
  LET kept == { id \in DOMAIN PRINT_FRAGMENTS_MAPPING :
                  ~IsExpired(PRINT_FRAGMENTS_MAPPING[id]) }
      rest == [ i \in 1..(Len(watchTimers) - 1) |->
                  IF i < k THEN watchTimers[i] ELSE watchTimers[i + 1] ]
  IN /\ k \in 1..Len(watchTimers)
     /\ watchTimers[k] = 0
     /\ PRINT_FRAGMENTS_MAPPING' = [ id \in kept |-> PRINT_FRAGMENTS_MAPPING[id] ]
     /\ isWatching' = FALSE
     /\ watchTimers' = rest
     /\ UNCHANGED << LOCAL_CLIENT_ID, TRANSIT_PRINTERS_CACHE, sockets, clientConnected,
                     defaultPrinter, platform, mainVars, runnerVars, backend, polls, out,
                     printLogs, nextSeq >>

\* clearFragmentsWhichIsExpired(), run by a sweep timeout that has come due
SweepTimeout(k) ==
  LET kept == { id \in DOMAIN PRINT_FRAGMENTS_MAPPING :
                  ~IsExpired(PRINT_FRAGMENTS_MAPPING[id]) }
      rest == [ i \in 1..(Len(watchTimers) - 1) |->
                  IF i < k THEN watchTimers[i] ELSE watchTimers[i + 1] ]
  IN /\ k \in 1..Len(watchTimers)
     /\ watchTimers[k] = 0
     /\ PRINT_FRAGMENTS_MAPPING' = [ id \in kept |-> PRINT_FRAGMENTS_MAPPING[id] ]
     /\ IF kept # {}
        THEN /\ isWatching' = TRUE
             /\ watchTimers' = Append(rest, CheckInterval)
        ELSE /\ isWatching' = FALSE
             /\ watchTimers' = rest
     /\ UNCHANGED << LOCAL_CLIENT_ID, TRANSIT_PRINTERS_CACHE, sockets, clientConnected,
                     defaultPrinter, platform, mainVars, runnerVars, backend, polls, out,
                     printLogs, nextSeq >>

\* One minute passes: Date.now() moves on and every pending timeout comes a
\* minute closer.  A timeout that is due runs before more time passes.  An age
\* beyond Expire + 1 is not told apart from Expire + 1.
Tick ==
  /\ \A k \in 1..Len(watchTimers) : watchTimers[k] > 0
  /\ watchTimers' = [ k \in 1..Len(watchTimers) |-> watchTimers[k] - 1 ]
  /\ PRINT_FRAGMENTS_MAPPING' =
       [ id \in DOMAIN PRINT_FRAGMENTS_MAPPING |->
           [ PRINT_FRAGMENTS_MAPPING[id] EXCEPT
               !.age = IF @ > Expire THEN @ ELSE @ + 1 ] ]
  /\ UNCHANGED << LOCAL_CLIENT_ID, TRANSIT_PRINTERS_CACHE, sockets, clientConnected,
                  defaultPrinter, platform, mainVars, isWatching, runnerVars, backend, polls,
                  out, printLogs, nextSeq >>

-----------------------------------------------------------------------------
(* Relay client: initClientEvent.  The SOCKET_CLIENT object exists for the  *)
(* whole behaviour; clientConnected is its "connected" flag.                *)

\* client.on("connect"): LOCAL_CLIENT_ID is only read
ClientConnect ==
  /\ ~clientConnected
  /\ clientConnected' = TRUE
  /\ UNCHANGED << LOCAL_CLIENT_ID, TRANSIT_PRINTERS_CACHE, sockets, defaultPrinter,
                  platform, mainVars, PRINT_FRAGMENTS_MAPPING, isWatching, watchTimers,
                  runnerVars, backend, polls, out, printLogs, nextSeq >>

\* client.on("disconnect")
ClientDisconnect ==
  /\ clientConnected
  /\ clientConnected' = FALSE
  /\ UNCHANGED << LOCAL_CLIENT_ID, TRANSIT_PRINTERS_CACHE, sockets, defaultPrinter,
                  platform, mainVars, PRINT_FRAGMENTS_MAPPING, isWatching, watchTimers,
                  runnerVars, backend, polls, out, printLogs, nextSeq >>

\* The relay reports the outcome of a job this node forwarded to it: it emits
\* ev ("success" or "error") with the job's replyId on the client connection.
\* initClientEvent registers no listener for either event and keeps no table
\* of forwarded jobs, so the report changes nothing but the history.
RelayResult(e, ev) ==
  /\ clientConnected
  /\ \E i \in 1..Len(out) : out[i] = e
  /\ e.to = RelaySocketId /\ e.ev = "news" /\ e.origin = "news" /\ e.replyId # ""
  /\ \A r \in hist.reported : r.seq # e.seq
  /\ hist' = [ hist EXCEPT !.reported =
                 @ \cup {[seq |-> e.seq, replyId |-> e.replyId, from |-> e.from, ev |-> ev]} ]
  /\ UNCHANGED << LOCAL_CLIENT_ID, TRANSIT_PRINTERS_CACHE, sockets, clientConnected,
                  defaultPrinter, platform, mainVars, PRINT_FRAGMENTS_MAPPING, isWatching,
                  watchTimers, runnerQueue, runnerRunning, PRINT_RUNNER_DONE,
                  printWindow, nextTaskId, backend, polls, out, printLogs, nextSeq >>

\* a routing decision of client.on("news") that forwards targets of any length
ClientNewsRouteAnyLength(d) ==
  LET targetClientId == IF d.client # "" THEN d.client ELSE d.printer
      looksLikeClientId == LooksLikeClientId(targetClientId)
      isLocal == IF d.replyId # ""
                 THEN targetClientId = LOCAL_CLIENT_ID
                 ELSE looksLikeClientId /\ targetClientId = LOCAL_CLIENT_ID
  IN IF isLocal THEN "local"
     ELSE IF targetClientId # "" /\ targetClientId # RelaySocketId
       THEN "forward"
     ELSE "default"

\* the routing decision of client.on("news"):
\* "local" (target is this node), "forward", "default" (last branch)
ClientNewsRoute(d) ==
  LET targetClientId == IF d.client # "" THEN d.client ELSE d.printer
      looksLikeClientId == LooksLikeClientId(targetClientId)
      isLocal == IF d.replyId # ""
                 THEN targetClientId = LOCAL_CLIENT_ID
                 ELSE looksLikeClientId /\ targetClientId = LOCAL_CLIENT_ID
  IN IF isLocal THEN "local"
     ELSE IF targetClientId # "" /\ targetClientId # RelaySocketId /\ looksLikeClientId
       THEN "forward"
     ELSE "default"

\* client.on("news", data)
ClientNews(data) ==
  LET route == ClientNewsRoute(data)
      d0 == [data EXCEPT !.seq = nextSeq + 1, !.origin = "clientnews",
                         !.target = IF data.client # "" THEN data.client ELSE data.printer,
                         !.route = route,
                         !.resolved = queryPrinterCache(TRANSIT_PRINTERS_CACHE,
                                        IF data.client # "" THEN data.client ELSE data.printer),
                         !.self = LOCAL_CLIENT_ID, !.relay = clientConnected]
      targetClientId == IF d0.client # "" THEN d0.client ELSE d0.printer
      \* if (data.client && !data.printer) data.printer = data.client
      restored == IF d0.client # "" /\ d0.printer = ""
                  THEN [d0 EXCEPT !.printer = d0.client] ELSE d0
      forwardData == [d0 EXCEPT !.client = targetClientId, !.printer = StripPrefix(d0.printer)]
      task == IF route = "local"
                THEN Task(restored, RelaySocketId, "transit", StripPrefix(restored.printer))
              ELSE IF d0.replyId # ""
                THEN Task([restored EXCEPT !.printer = StripPrefix(@)], RelaySocketId,
                          "transit", StripPrefix(restored.printer))
              ELSE Task(d0, RelaySocketId, "transit", d0.printer)
  IN /\ clientConnected
     /\ nextSeq' = nextSeq + 1
     /\ IF route = "forward"
        THEN /\ out' = Append(out, Ev(RelaySocketId, "news", forwardData))
             /\ UNCHANGED runnerVars
        ELSE /\ SetRunner(RunnerAdd(RunnerState, task))
             /\ out' = out
     /\ UNCHANGED << LOCAL_CLIENT_ID, TRANSIT_PRINTERS_CACHE, sockets, clientConnected,
                     defaultPrinter, platform, mainVars, PRINT_FRAGMENTS_MAPPING, isWatching,
                     watchTimers, backend, polls, printLogs >>

\* One item of a "printerList" broadcast: a printer and the server block of
\* its owner ("" stands for a missing field).
Item(name, displayName, clientId, nickName, ip) ==
  [ name |-> name, displayName |-> displayName, clientId |-> clientId,
    nickName |-> nickName, ip |-> ip ]

\* global.LOCAL_CLIENT_ID after one item of the broadcast:
\*   if (ip && ip === localIp && clientId) global.LOCAL_CLIENT_ID = clientId
AdoptFromItem(current, item) ==
  IF item.ip # "" /\ item.ip = LocalIp /\ item.clientId # "" THEN item.clientId ELSE current

\* the displayName built for one item
ItemDisplayName(item) ==
  LET clientLabel == IF item.nickName # "" THEN item.nickName
                     ELSE IF item.ip # "" THEN item.ip ELSE ""
      shown == IF item.displayName # "" THEN item.displayName ELSE item.name
  IN (IF clientLabel # "" THEN "[" \o clientLabel \o "] " ELSE "") \o shown

\* global.TRANSIT_PRINTERS_CACHE[displayName] = {...} for one item
CacheItem(cache, item) ==
  LET rec == [ displayName |-> ItemDisplayName(item), originalName |-> item.name,
               clientId |-> item.clientId ]
      at == CacheIndex(cache, rec.displayName)
  IN IF item.clientId = "" THEN cache
     ELSE IF at # 0 THEN [cache EXCEPT ![at] = rec]
     ELSE Append(cache, rec)

\* printers.forEach(...) of client.on("printerList"), on the pair <<id, cache>>
RECURSIVE ForEachItem(_, _)
ForEachItem(state, printers) ==
  IF printers = <<>> THEN state
  ELSE ForEachItem(<< AdoptFromItem(state[1], Head(printers)),
                      CacheItem(state[2], Head(printers)) >>, Tail(printers))

\* client.on("printerList", printers)
PrinterList(printers) ==
  LET after == ForEachItem(<<LOCAL_CLIENT_ID, TRANSIT_PRINTERS_CACHE>>, printers)
  IN /\ clientConnected
     /\ LOCAL_CLIENT_ID' = after[1]
     /\ TRANSIT_PRINTERS_CACHE' = after[2]
     /\ UNCHANGED << sockets, clientConnected, defaultPrinter, platform, mainVars,
                     PRINT_FRAGMENTS_MAPPING, isWatching, watchTimers, runnerVars,
                     backend, polls, out, printLogs, nextSeq >>

-----------------------------------------------------------------------------
(* Print window: initPrintEvent *)

\* One entry of getPrintersAsync()
Printer(name, status, isDefault) == [ name |-> name, status |-> status, isDefault |-> isDefault ]

\* ipcMain.on("print-new-test"): a test print sent by a window of the node.
\* localPrinters is the answer of getPrintersAsync().
PrintNewTest(data, localPrinters) ==
  LET d == [data EXCEPT !.seq = nextSeq + 1, !.origin = "test", !.target = data.printer]
      cacheResult == queryPrinterCache(TRANSIT_PRINTERS_CACHE, d.printer)
      fromCache == StripPrefix(IF cacheResult.originalName # ""
                               THEN cacheResult.originalName ELSE d.printer)
      cleanName == StripPrefix(d.printer)
      names == { localPrinters[i].name : i \in 1..Len(localPrinters) }
      Direct(msg) == /\ printWindow' = printWindow \cup {msg}
                     /\ out' = out
      Relay(msg) == /\ out' = Append(out, Ev(RelaySocketId, "news", msg))
                    /\ printWindow' = printWindow
      Refuse == /\ out' = Append(out, Ev("renderer", "printTestError", d))
                /\ printWindow' = printWindow
  IN /\ nextSeq' = nextSeq + 1
     /\ IF d.clientType = "transit" /\ d.replyId # ""
        THEN IF cacheResult # NoRecord /\ cacheResult.clientId # ""
             THEN IF LOCAL_CLIENT_ID # "" /\ cacheResult.clientId = LOCAL_CLIENT_ID
                  THEN Direct([d EXCEPT !.clientType = "local", !.printer = fromCache])
                  ELSE IF clientConnected
                       THEN Relay([d EXCEPT !.client = cacheResult.clientId,
                                            !.printer = fromCache])
                       ELSE Refuse
             ELSE IF LooksLikeClientId(d.printer) /\ LOCAL_CLIENT_ID # ""
                     /\ d.printer = LOCAL_CLIENT_ID
                  THEN Direct([d EXCEPT !.clientType = "local",
                                        !.printer = StripPrefix(defaultPrinter)])
                  ELSE IF cleanName \in names \/ d.printer \in names
                       THEN Direct([d EXCEPT !.clientType = "local", !.printer = cleanName])
                       ELSE Refuse
        ELSE Direct(d)
     /\ UNCHANGED << LOCAL_CLIENT_ID, TRANSIT_PRINTERS_CACHE, sockets, clientConnected,
                     defaultPrinter, platform, mainVars, PRINT_FRAGMENTS_MAPPING, isWatching,
                     watchTimers, runnerQueue, runnerRunning, PRINT_RUNNER_DONE,
                     nextTaskId, hist, backend, polls, printLogs >>

\* the status test of the "do" handler: TRUE when the printer counts as faulty
PrinterError(status) ==
  IF platform = "win32" THEN status \notin {0, 512, 1024} ELSE status # 3

\* printers.forEach(...) of the "do" handler, on [defaultPrinter, havePrinter, printerError]
RECURSIVE ScanPrinters(_, _)
ScanPrinters(acc, printers) ==
  IF printers = <<>> THEN acc
  ELSE LET element == Head(printers)
           dp == IF element.isDefault /\ acc.defaultPrinter = ""
                 THEN element.name ELSE acc.defaultPrinter
           hit == element.name = dp
       IN ScanPrinters([ defaultPrinter |-> dp,
                         havePrinter |-> acc.havePrinter \/ hit,
                         printerError |-> acc.printerError
                                          \/ (hit /\ PrinterError(element.status)) ],
                       Tail(printers))

\* the socket the "do" handler reports to, "" when there is none:
\*   data.clientType === "local" ? SOCKET_SERVER.sockets.sockets.get(data.socketId)
\*                                : SOCKET_CLIENT
DoSocket(job) ==
  IF job.clientType = "local"
  THEN (IF job.socketId \in sockets THEN job.socketId ELSE "")
  ELSE RelaySocketId

\* socket && socket.emit(ev, {msg, templateId, replyId})
Emit(events, socket, ev, job) ==
  IF socket = "" THEN events ELSE Append(events, Ev(socket, ev, job))

\* logPrintResult(status, errorMessage)
logPrintResult(logs, job, status) == Append(logs, [seq |-> job.seq, status |-> status])

\* a completion that forgets the entry without calling it
DeleteOnly(R, job) == [ R EXCEPT !.done = @ \ {job.taskId} ]

\* if (data.taskId) { PRINT_RUNNER_DONE[data.taskId](); delete PRINT_RUNNER_DONE[data.taskId]; }
\* Calling a missing entry throws and the handler stops there.
DoneAndDelete(R, job) ==
  IF job.taskId = 0 THEN R
  ELSE IF job.taskId \notin R.done
  THEN [ R EXCEPT !.hist = [@ EXCEPT !.threw = @ \cup {job.seq}] ]
  ELSE [ RunnerDone(R, job) EXCEPT !.done = @ \ {job.taskId} ]

\* if (data.taskId) { PRINT_RUNNER_DONE[data.taskId] && PRINT_RUNNER_DONE[data.taskId]();
\*   delete (PRINT_RUNNER_DONE[data.taskId] && PRINT_RUNNER_DONE[data.taskId]); }
\* The operand of this delete is a value, not a property: nothing is removed.
DoneNoDelete(R, job) ==
  IF job.taskId = 0 \/ job.taskId \notin R.done THEN R
  ELSE RunnerDone(R, job)

\* the handler's work for a job is over: no promise or callback of it is
\* pending.  socket is the socket the handler found for its reports.
Ended(R, job, socket) ==
  [ R EXCEPT !.hist = [@ EXCEPT !.ended = @ \cup {[seq |-> job.seq, socket |-> socket]}] ]

\* the job waits for a backend promise or callback
Wait(job, phase, socket, deviceName) ==
  [ job |-> job, phase |-> phase, socket |-> socket, deviceName |-> deviceName ]

\* ipcMain.on("do"): the print window has rendered the job; printers is the
\* answer of getPrintersAsync().  again is 1 when the handler has had the job
\* before, 0 otherwise.
DoHandler(job, printers, again) ==
  LET socket == DoSocket(job)
      scan == ScanPrinters([ defaultPrinter |-> IF job.printer # "" THEN job.printer
                                                ELSE defaultPrinter,
                             havePrinter |-> FALSE, printerError |-> FALSE ], printers)
      type == job.type
      R0 == [ RunnerState EXCEPT !.window = @ \ {job},
                                 !.hist = [@ EXCEPT !.handled = @ \cup {job},
                                                    !.repeats = @ + again] ]
  IN /\ IF ~scan.havePrinter \/ scan.printerError
        THEN /\ out' = Emit(out, socket, "error", job)
             /\ SetRunner(Ended(DoneAndDelete(R0, job), job, socket))
             /\ UNCHANGED << backend, printLogs >>
        ELSE IF type = "blob_pdf" /\ ~job.pdf_blob
        THEN /\ out' = Emit(out, socket, "error", job)
             /\ printLogs' = logPrintResult(printLogs, job, "failed")
             /\ SetRunner(Ended(DoneAndDelete(R0, job), job, socket))
             /\ UNCHANGED backend
        ELSE /\ backend' = backend \cup
                  { Wait(job, CASE type = "pdf" -> "printToPDF"
                                [] type = "url_pdf" -> "printPdfUrl"
                                [] type = "blob_pdf" -> "printPdfBlob"
                                [] OTHER -> "print",
                         socket, scan.defaultPrinter) }
             /\ SetRunner(R0)
             /\ UNCHANGED << out, printLogs >>
     /\ UNCHANGED << LOCAL_CLIENT_ID, TRANSIT_PRINTERS_CACHE, sockets, clientConnected,
                     defaultPrinter, platform, mainVars, PRINT_FRAGMENTS_MAPPING, isWatching,
                     watchTimers, polls, nextSeq >>

\* the print window sends "do" for a job it has rendered
Do(job, printers) ==
  /\ job \in printWindow
  /\ DoHandler(job, printers, 0)

\* the print window sends "do" once more for a job the handler has already
\* had and whose backend work is over
DoAgain(job, printers) ==
  /\ job \in hist.handled
  /\ job \notin printWindow
  /\ \A b \in backend : b.job # job
  /\ \A p \in polls : p.job # job
  /\ DoHandler(job, printers, 1)

otherVars == << LOCAL_CLIENT_ID, TRANSIT_PRINTERS_CACHE, sockets, clientConnected,
                defaultPrinter, platform, mainVars, PRINT_FRAGMENTS_MAPPING, isWatching,
                watchTimers, nextSeq >>

\* PRINT_WINDOW.webContents.printToPDF(...).then(pdfData => { fs.writeFileSync(...);
\* printPdf(...) }): the chain has no catch.  outcome is "ok", "reject"
\* (printToPDF rejects) or "writeFail" (writeFileSync throws).
PrintToPdfSettle(b, outcome) ==
  /\ b \in backend
  /\ b.phase = "printToPDF"
  /\ IF outcome = "ok"
     THEN /\ backend' = (backend \ {b}) \cup {[b EXCEPT !.phase = "printPdf"]}
          /\ UNCHANGED runnerVars
     ELSE /\ backend' = backend \ {b}
          /\ SetRunner(Ended(RunnerState, b.job, b.socket))
  /\ UNCHANGED << otherVars, polls, out, printLogs >>

\* checkPrinterStatus(deviceName, callback): setInterval(..., 1000)
StartPoll(b) ==
  [ job |-> b.job, socket |-> b.socket, deviceName |-> b.deviceName,
    active |-> TRUE, inFlight |-> 0 ]

\* printPdf(...) / printPdfBlob(...) settles: .then / .catch / .finally
PrintPdfSettle(b, ok) ==
  LET waits == b.phase \in {"printPdfUrl", "printPdfBlob"} /\ ok /\ b.socket # ""
  IN /\ b \in backend
     /\ b.phase \in {"printPdf", "printPdfUrl", "printPdfBlob"}
     /\ backend' = backend \ {b}
     /\ out' = IF ~ok THEN Emit(out, b.socket, "error", b.job)
               ELSE IF b.phase = "printPdf" THEN Emit(out, b.socket, "success", b.job)
               ELSE out
     /\ polls' = IF waits THEN polls \cup {StartPoll(b)} ELSE polls
     /\ printLogs' = logPrintResult(printLogs, b.job, IF ok THEN "success" ELSE "failed")
     /\ SetRunner(LET R == DoneAndDelete(RunnerState, b.job)
                  IN IF waits THEN R ELSE Ended(R, b.job, b.socket))
     /\ UNCHANGED otherVars

\* the callback of PRINT_WINDOW.webContents.print(options, (success, failureReason) => ...)
PrintCallback(b, success) ==
  /\ b \in backend
  /\ b.phase = "print"
  /\ backend' = backend \ {b}
  /\ printLogs' = logPrintResult(printLogs, b.job, IF success THEN "success" ELSE "failed")
  /\ out' = Emit(out, b.socket, IF success THEN "success" ELSE "error", b.job)
  /\ SetRunner(Ended(DoneNoDelete(RunnerState, b.job), b.job, b.socket))
  /\ UNCHANGED << otherVars, polls >>

\* the interval of checkPrinterStatus comes due: one more getPrintersAsync() is
\* under way
PollTick(p) ==
  /\ p \in polls
  /\ p.active
  /\ p.inFlight < MaxPolls
  /\ polls' = (polls \ {p}) \cup {[p EXCEPT !.inFlight = @ + 1]}
  /\ UNCHANGED << otherVars, runnerVars, backend, out, printLogs >>

\* printer.status === ISCAN_STATUS for the printer named deviceName
PrinterReady(printers, deviceName) ==
  \E i \in 1..Len(printers) :
    /\ printers[i].name = deviceName
    /\ \A j \in 1..(i - 1) : printers[j].name # deviceName
    /\ printers[i].status = (IF platform = "win32" THEN 0 ELSE 3)

\* what one settled poll does to the checkPrinterStatus instance
AfterPoll(p, stops) ==
  [p EXCEPT !.inFlight = @ - 1, !.active = IF stops THEN FALSE ELSE @]

\* one getPrintersAsync() of checkPrinterStatus settles: .then(printers => ...)
\* when rejected is FALSE, .catch otherwise
PollSettle(p, printers, rejected) ==
  LET ready == ~rejected /\ PrinterReady(printers, p.deviceName)
      q == AfterPoll(p, rejected \/ ready)
      over == ~q.active /\ q.inFlight = 0
  IN /\ p \in polls
     /\ p.inFlight > 0
     /\ polls' = (polls \ {p}) \cup (IF over THEN {} ELSE {q})
     /\ out' = IF ready THEN Append(out, Ev(p.socket, "success", p.job)) ELSE out
     /\ IF over THEN SetRunner(Ended(RunnerState, p.job, p.socket)) ELSE UNCHANGED runnerVars
     /\ UNCHANGED << otherVars, backend, printLogs >>

-----------------------------------------------------------------------------
(* The main process outside the print path *)

\* every variable of the print path
printVars == << LOCAL_CLIENT_ID, TRANSIT_PRINTERS_CACHE, sockets, clientConnected,
                defaultPrinter, platform, PRINT_FRAGMENTS_MAPPING, isWatching,
                watchTimers, runnerVars, backend, polls, out, printLogs, nextSeq >>

\* loadUrlWithRetry has not been called
NotLoading ==
  [ pc |-> "idle", maxRetries |-> 0, currentRetry |-> 0, attempts |-> 0,
    page |-> "", result |-> "" ]

\* loadUrlWithRetry(mainWindow, url, delaySeconds, retryInterval, maxRetries)
\* is called: currentRetry = 0; with a delay the countdown page is shown and
\* the delay awaited, then the loop is entered.  The pages of the application
\* itself (countdown, error, index) load; the url may or may not.
LoadUrlWithRetry(delaySeconds, maxRetries) ==
  /\ loadUrl.pc = "idle"
  /\ loadUrl' = [ NotLoading EXCEPT !.pc = IF delaySeconds > 0 THEN "countdown" ELSE "while",
                                    !.maxRetries = maxRetries,
                                    !.page = IF delaySeconds > 0 THEN "countdown" ELSE "" ]
  /\ UNCHANGED << printVars, token, refused, refreshes, AUTO_OPEN_URL_SHOWN >>

\* await new Promise(resolve => setTimeout(resolve, delaySeconds * 1000)) or
\* setTimeout(resolve, retryInterval * 1000) is over
LoadTimer ==
  /\ loadUrl.pc \in {"countdown", "retryWait"}
  /\ loadUrl' = [ loadUrl EXCEPT !.pc = "while" ]
  /\ UNCHANGED << printVars, token, refused, refreshes, AUTO_OPEN_URL_SHOWN >>

\* a loop that counts a failed load only when it is the first
LoadURLCountsFirst(ok) ==
  LET failed == IF loadUrl.currentRetry = 0 THEN 1 ELSE loadUrl.currentRetry
  IN /\ loadUrl.pc = "while"
     /\ loadUrl.attempts < MaxRetries + 1
     /\ IF ~(loadUrl.currentRetry < loadUrl.maxRetries)
        THEN /\ loadUrl' = [ loadUrl EXCEPT !.pc = "returned", !.result = "undefined" ]
             /\ UNCHANGED AUTO_OPEN_URL_SHOWN
        ELSE IF ok
        THEN /\ AUTO_OPEN_URL_SHOWN' = TRUE
             /\ loadUrl' = [ loadUrl EXCEPT !.pc = "returned", !.result = "true",
                                            !.attempts = @ + 1, !.page = "url" ]
        ELSE /\ UNCHANGED AUTO_OPEN_URL_SHOWN
             /\ loadUrl' =
                  IF failed >= loadUrl.maxRetries
                  THEN [ loadUrl EXCEPT !.pc = "returned", !.result = "false",
                                        !.attempts = @ + 1, !.currentRetry = failed,
                                        !.page = "index" ]
                  ELSE [ loadUrl EXCEPT !.pc = "retryWait", !.attempts = @ + 1,
                                        !.currentRetry = failed, !.page = "error" ]
     /\ UNCHANGED << printVars, token, refused, refreshes >>

\* one round of while (currentRetry < maxRetries) { try { await loadURL(url);
\* ... return true } catch { currentRetry++; ... } }: ok tells whether the
\* load of the url succeeds
LoadURL(ok) ==
  LET failed == loadUrl.currentRetry + 1
  IN /\ loadUrl.pc = "while"
     /\ IF ~(loadUrl.currentRetry < loadUrl.maxRetries)
        THEN /\ loadUrl' = [ loadUrl EXCEPT !.pc = "returned", !.result = "undefined" ]
             /\ UNCHANGED AUTO_OPEN_URL_SHOWN
        ELSE IF ok
        THEN /\ AUTO_OPEN_URL_SHOWN' = TRUE
             /\ loadUrl' = [ loadUrl EXCEPT !.pc = "returned", !.result = "true",
                                            !.attempts = @ + 1, !.page = "url" ]
        ELSE /\ UNCHANGED AUTO_OPEN_URL_SHOWN
             /\ loadUrl' =
                  IF failed >= loadUrl.maxRetries
                  THEN [ loadUrl EXCEPT !.pc = "returned", !.result = "false",
                                        !.attempts = @ + 1, !.currentRetry = failed,
                                        !.page = "index" ]
                  ELSE [ loadUrl EXCEPT !.pc = "retryWait", !.attempts = @ + 1,
                                        !.currentRetry = failed, !.page = "error" ]
     /\ UNCHANGED << printVars, token, refused, refreshes >>

\* a middleware that tests the token only of a connection that offers one
UseIfOffered(s, offered) ==
  /\ s \notin sockets /\ s \notin refused
  /\ IF token # "" /\ offered # "" /\ token # offered
     THEN /\ refused' = refused \cup {s}
          /\ UNCHANGED << printVars, token, refreshes, AUTO_OPEN_URL_SHOWN, loadUrl >>
     ELSE ServerConnect(s)

\* server.use((socket, next) => ...) for a connection with id s whose
\* handshake offers the token offered ("": none), and server.on("connect")
\* when the middleware lets it pass:
\*   if (token && token !== socket.handshake.auth.token) next(err) else next()
\* Every connection has an id of its own.
Use(s, offered) ==
  /\ s \notin sockets /\ s \notin refused
  /\ IF token # "" /\ token # offered
     THEN /\ refused' = refused \cup {s}
          /\ UNCHANGED << printVars, token, refreshes, AUTO_OPEN_URL_SHOWN, loadUrl >>
     ELSE ServerConnect(s)

\* socket.on("refreshPrinterList") on socket s, from the local printers being
\* read to the end of the handler.  With the relay connected the reply waits:
\* a 5 second timeout is armed, a listener for printerList-<replyId> is put on
\* the relay socket and the relay is asked; without it the local list is
\* sent at once.  replies are the "printerList" events sent to s, each the
\* local list alone ("local") or with the relay's printers ("merged").
RefreshPrinterList(s) ==
  /\ s \in sockets
  /\ refreshes' = Append(refreshes,
       IF clientConnected
       THEN [ socket |-> s, timeout |-> "armed", listening |-> TRUE,
              allPrinters |-> "local", replies |-> <<>> ]
       ELSE [ socket |-> s, timeout |-> "none", listening |-> FALSE,
              allPrinters |-> "local", replies |-> <<"local">> ])
  /\ UNCHANGED << printVars, token, refused, AUTO_OPEN_URL_SHOWN, loadUrl >>

\* setTimeout(() => { completeAndReturn(); }, 5000) of request i comes due
RefreshTimeout(i) ==
  /\ refreshes[i].timeout = "armed"
  /\ refreshes' = [refreshes EXCEPT ![i].timeout = "fired",
                                    ![i].replies = Append(@, refreshes[i].allPrinters)]
  /\ UNCHANGED << printVars, token, refused, AUTO_OPEN_URL_SHOWN, loadUrl >>

\* originalHandler(printers): the relay's printerList-<replyId> for request i
\* arrives while its listener is on the relay socket
OriginalHandler(i) ==
  /\ clientConnected
  /\ refreshes[i].listening
  /\ refreshes' =
       [refreshes EXCEPT ![i].timeout = IF @ = "armed" THEN "cleared" ELSE @,
                         ![i].listening = FALSE,
                         ![i].allPrinters = "merged",
                         ![i].replies = Append(@, "merged")]
  /\ UNCHANGED << printVars, token, refused, AUTO_OPEN_URL_SHOWN, loadUrl >>

-----------------------------------------------------------------------------
(* Inputs *)

Types == {"html", "pdf", "url_pdf", "blob_pdf"}

\* answers of getPrintersAsync(): the printer "HP" is missing, idle on
\* win32 (0), idle on CUPS (3) or faulty (5); "Zebra" may be the system default
PrinterLists ==
  { <<>> } \cup
  { <<Printer("HP", st, TRUE)>> : st \in {0, 3, 5} } \cup
  { <<Printer("Zebra", 0, TRUE), Printer("HP", st, FALSE)>> : st \in {0, 3} }

\* submissions of every kind that name no target: type and pdf_blob
Job(type, blob, templateId, replyId) == MkData(type, "", "", templateId, replyId, blob)

\* one job per path of the "do" handler
LocalJobs ==
  { Job(type, TRUE, "t1", "") : type \in Types } \cup { Job("blob_pdf", FALSE, "t1", "") }

\* jobs for the queue: a page, and a PDF blob job that came without its blob
QueueJobs == { Job("html", FALSE, "t1", ""), Job("blob_pdf", FALSE, "t1", "") }

\* what the relay hands to client.on("news") for this node
RelayJobs == { Job("html", FALSE, "t3", replyId) : replyId \in {"", "rid-1"} }

\* a test print of the settings window
TestJobs == { Job("html", FALSE, "t4", "") }

\* submissions that name a node, a display name or a raw printer name
RoutedJobs ==
  { MkData("html", printer, "", "t1", "", FALSE) :
      printer \in {"", "HP", S1, S2, NodeA, NodeB, "[10.0.0.2] HP", "[10.0.0.1] HP"} }

\* "printerList" broadcasts of the relay
Broadcasts ==
  { <<Item("HP", "", id, "", ip)>> :
      id \in {NodeA, NodeB, ""}, ip \in {LocalIp, OtherIp} } \cup
  { <<Item("HP", "", NodeA, "", LocalIp), Item("HP", "", NodeB, "", OtherIp)>>,
    <<Item("HP", "", NodeB, "", OtherIp), Item("Zebra", "", NodeB, "office", OtherIp)>> }

\* broadcasts that fill the directory with a printer of another node
RouteBroadcasts ==
  { <<Item("HP", "", NodeB, "", OtherIp)>>,
    <<Item("HP", "", NodeA, "", LocalIp), Item("HP", "", NodeB, "", OtherIp)>> }

\* broadcasts listing the printers of this node (NodeA at the local ip) and
\* of another node, or of the other node alone
RoutingBroadcasts ==
  { << Item("HP", "", NodeA, "", LocalIp), Item("Zebra", "", NodeA, "", LocalIp),
       Item("HP", "", NodeB, "", OtherIp), Item("Zebra", "", NodeB, "", OtherIp) >>,
    << Item("HP", "", NodeB, "", OtherIp), Item("Zebra", "", NodeB, "", OtherIp) >> }

\* targets a caller may name: nothing, a raw name, a socket, a node, display
\* names shorter and longer than a node identifier
Targets ==
  { "", "HP", S2, NodeA, NodeB, "[10.0.0.1] HP", "[10.0.0.2] HP",
    "[10.0.0.1] Zebra", "[10.0.0.2] Zebra" }

\* submissions on a local socket for every target, with and without a replyId
RoutingJobs ==
  { MkData("html", printer, "", "t1", replyId, FALSE) :
      printer \in Targets, replyId \in {"", "rid-1"} }

\* submissions on a local socket that name this node or nothing
SelfJobs ==
  { MkData("html", printer, "", "t1", "", FALSE) : printer \in {"", S1, NodeA} }

\* what the relay hands over: the node named in client or in printer, with
\* and without the replyId of a hop
RelayTargetJobs ==
  { MkData("html", printer, client, "t3", replyId, FALSE) :
      printer \in {"", "HP", "[10.0.0.1] HP", NodeA},
      client \in {"", S1, NodeA, NodeB},
      replyId \in {"", "rid-1"} }

\* defaults the settings may hold: none, a raw name, a name picked from the
\* relay's list
DefaultPrinters == {"", "HP", "[10.0.0.1] HP"}

\* single printers of a broadcast: raw name, name shown, owner, label
DirItems ==
  { Item(shown[1], shown[2], id, nickName, ip) :
      shown \in { <<"HP", "">>, <<"HP", "Office">>, <<"Zebra", "">> },
      id \in {NodeA, NodeB}, nickName \in {"", "office"}, ip \in {"", LocalIp, OtherIp} }

FragIds == {"f1", "f2"}
Chunks == {"a", "b"}

-----------------------------------------------------------------------------
(* Specifications *)

\* the state after construction; the settings of the store and the platform
\* stay as they are for the whole behaviour
PrintPathInit(defaultPrinters, platforms) ==
  /\ LOCAL_CLIENT_ID = ProvisionalId
  /\ TRANSIT_PRINTERS_CACHE = <<>>
  /\ sockets = {}
  /\ clientConnected = FALSE
  /\ defaultPrinter \in defaultPrinters
  /\ platform \in platforms
  /\ PRINT_FRAGMENTS_MAPPING = <<>>
  /\ isWatching = FALSE
  /\ watchTimers = <<>>
  /\ runnerQueue = <<>>
  /\ runnerRunning = 0
  /\ PRINT_RUNNER_DONE = {}
  /\ printWindow = {}
  /\ backend = {}
  /\ polls = {}
  /\ out = <<>>
  /\ printLogs = <<>>
  /\ nextTaskId = 0
  /\ nextSeq = 0
  /\ hist = [ added |-> <<>>, started |-> <<>>, done |-> <<>>, ended |-> {},
              reported |-> {}, handled |-> {}, threw |-> {}, repeats |-> 0 ]

\* the main process outside the print path after construction, with the token
\* setting one of tokens: global.AUTO_OPEN_URL_SHOWN = false, no connection
\* turned away, no refresh asked for, no page loaded
MainInit(tokens) ==
  /\ token \in tokens
  /\ refused = {}
  /\ refreshes = <<>>
  /\ AUTO_OPEN_URL_SHOWN = FALSE
  /\ loadUrl = NotLoading

InitWith(defaultPrinters, platforms) ==
  /\ PrintPathInit(defaultPrinters, platforms)
  /\ MainInit({""})

\* The execution queue: every handler that admits jobs, and the print window
\* printing pages (the PDF backends and the status polls are in SpecDo)
Init == InitWith({""}, {"win32"})

Next ==
  \/ ServerConnect(S1)
  \/ ClientConnect
  \/ nextSeq < MaxJobs /\ \E d \in QueueJobs : News(S1, d)
  \/ nextSeq < MaxJobs /\ \E d \in RelayJobs : ClientNews(d)
  \/ nextSeq < MaxJobs /\ \E total \in 1..2 :
                            PrintByFragments(S1, Job("html", FALSE, "t2", ""), "f1", total, 0, "a")
  \/ nextSeq < MaxJobs /\ \E d \in TestJobs, printers \in PrinterLists : PrintNewTest(d, printers)
  \/ \E job \in printWindow, printers \in PrinterLists : Do(job, printers)
  \/ \E b \in backend, success \in BOOLEAN : PrintCallback(b, success)

Spec == Init /\ [][Next]_vars

\* The "do" handler on every kind of job, with sockets that come and go
NextDo ==
  \/ ServerConnect(S1)
  \/ ServerDisconnect(S1)
  \/ nextSeq < MaxDoJobs /\ \E d \in LocalJobs : News(S1, d)
  \/ \E job \in printWindow, printers \in PrinterLists : Do(job, printers)
  \/ \E b \in backend, outcome \in {"ok", "reject", "writeFail"} : PrintToPdfSettle(b, outcome)
  \/ \E b \in backend, ok \in BOOLEAN : PrintPdfSettle(b, ok)
  \/ \E b \in backend, success \in BOOLEAN : PrintCallback(b, success)
  \/ \E p \in polls : PollTick(p)
  \/ \E p \in polls, printers \in PrinterLists, rejected \in BOOLEAN :
       PollSettle(p, printers, rejected)

SpecDo == InitWith({"", "HP"}, {"win32", "linux"}) /\ [][NextDo]_vars

\* The fragment assembler: fragments of two sets in every arrival order
NextFrag ==
  \/ ServerConnect(S1)
  \/ /\ nextSeq < MaxFragments
     /\ \E id \in FragIds, total \in 1..MaxTotal, chunk \in Chunks :
          \E index \in 0..(total - 1) :
            PrintByFragments(S1, Job("html", FALSE, "t2", ""), id, total, index, chunk)

SpecFrag == Init /\ [][NextFrag]_vars

\* The fragment assembler for whatever a caller declares: any total from 0
\* up, any index, the same index again
NextTotals ==
  \/ ServerConnect(S1)
  \/ /\ nextSeq < MaxFragments
     /\ \E id \in FragIds, total \in 0..MaxTotal, index \in 0..(MaxTotal - 1) :
          PrintByFragments(S1, Job("html", FALSE, "t2", ""), id, total, index, "a")

SpecTotals == Init /\ [][NextTotals]_vars

\* The fragment assembler and its sweep timer as time passes
NextSweep ==
  \/ ServerConnect(S1)
  \/ /\ nextSeq < MaxFragments
     /\ \E id \in FragIds, index \in 0..1 :
          PrintByFragments(S1, Job("html", FALSE, "t2", ""), id, 2, index, "a")
  \/ Tick
  \/ \E k \in 1..Len(watchTimers) : SweepTimeout(k)

\* the clock goes on and a timeout that is due runs
FairSpecSweep ==
  /\ Init
  /\ [][NextSweep]_vars
  /\ WF_vars(Tick)
  /\ WF_vars(\E k \in 1..Len(watchTimers) : SweepTimeout(k))

\* Routing: submissions that name a target, whole and in fragments
NextRoute ==
  \/ \E s \in SocketIds : ServerConnect(s)
  \/ ClientConnect
  \/ ClientDisconnect
  \/ \E printers \in RouteBroadcasts : PrinterList(printers)
  \/ nextSeq < MaxRouted /\ \E d \in RoutedJobs : News(S1, d)
  \/ /\ nextSeq < MaxRouted
     /\ \E d \in RoutedJobs, total \in 1..2 :
          \E index \in 0..(total - 1) : PrintByFragments(S1, d, "f1", total, index, "a")

SpecRoute == Init /\ [][NextRoute]_vars

\* The identity of the node: connections of both sides and relay broadcasts
NextIdentity ==
  \/ \E s \in SocketIds : ServerConnect(s)
  \/ \E s \in SocketIds : ServerDisconnect(s)
  \/ ClientConnect
  \/ ClientDisconnect
  \/ \E printers \in Broadcasts : PrinterList(printers)

SpecIdentity == Init /\ [][NextIdentity]_vars

\* Routing on the local server: jobs for every kind of target while sockets
\* and the relay connect, the relay disconnects and broadcasts arrive
NextRouting ==
  \/ \E s \in SocketIds : ServerConnect(s)
  \/ ClientConnect
  \/ ClientDisconnect
  \/ \E printers \in RoutingBroadcasts : PrinterList(printers)
  \/ nextSeq < MaxRouted /\ \E d \in RoutingJobs : News(S1, d)

SpecRouting == Init /\ [][NextRouting]_vars

\* jobs of either local socket that name a local socket or a printer
PeerJobs ==
  { MkData("html", printer, "", "t1", "rid-1", FALSE) : printer \in {S1, S2, "HP"} }

\* Two sockets on the local server sending each other jobs while the relay
\* connects and disconnects and the directory is filled
NextPeer ==
  \/ \E s \in SocketIds : ServerConnect(s)
  \/ ClientConnect
  \/ ClientDisconnect
  \/ \E printers \in RoutingBroadcasts : PrinterList(printers)
  \/ nextSeq < MaxRouted /\ \E s \in SocketIds, d \in PeerJobs : News(s, d)

SpecPeer == Init /\ [][NextPeer]_vars

\* Jobs that name no printer, from a local socket and from the relay, printed
\* with every configured default printer
NextDefault ==
  \/ ServerConnect(S1)
  \/ ClientConnect
  \/ nextSeq < MaxDoJobs /\ News(S1, Job("html", FALSE, "t1", ""))
  \/ nextSeq < MaxDoJobs /\ ClientNews(Job("html", FALSE, "t3", "rid-1"))
  \/ \E job \in printWindow, printers \in PrinterLists : Do(job, printers)
  \/ \E b \in backend, success \in BOOLEAN : PrintCallback(b, success)

SpecDefault == InitWith(DefaultPrinters, {"win32"}) /\ [][NextDefault]_vars

\* jobs of a local socket for printers of another node
RemoteJobs ==
  { MkData("html", printer, "", "t1", replyId, FALSE) :
      printer \in {NodeB, "[10.0.0.2] Zebra"}, replyId \in {"rid-1", "rid-2"} }

\* The round trip: jobs forwarded to the relay and the relay's reports on them
NextRoundTrip ==
  \/ ServerConnect(S1)
  \/ ClientConnect
  \/ ClientDisconnect
  \/ \E printers \in RoutingBroadcasts : PrinterList(printers)
  \/ nextSeq < MaxRouted /\ \E d \in RemoteJobs : News(S1, d)
  \/ \E i \in 1..Len(out), ev \in {"success", "error"} : RelayResult(out[i], ev)

SpecRoundTrip == Init /\ [][NextRoundTrip]_vars

\* The "do" handler when the print window repeats a "do" for a finished job
NextRepeat ==
  \/ ServerConnect(S1)
  \/ nextSeq < MaxDoJobs /\ \E d \in LocalJobs : News(S1, d)
  \/ \E job \in printWindow, printers \in PrinterLists : Do(job, printers)
  \/ /\ hist.repeats < MaxRepeats
     /\ \E job \in hist.handled, printers \in PrinterLists : DoAgain(job, printers)
  \/ \E b \in backend : PrintToPdfSettle(b, "ok")
  \/ \E b \in backend, ok \in BOOLEAN : PrintPdfSettle(b, ok)
  \/ \E b \in backend, success \in BOOLEAN : PrintCallback(b, success)
  \/ \E p \in polls : PollTick(p)
  \/ \E p \in polls, printers \in PrinterLists : PollSettle(p, printers, FALSE)

SpecRepeat == Init /\ [][NextRepeat]_vars

\* pages for the default printer and for a named one
NamedJobs == { MkData("html", printer, "", "t1", "", FALSE) : printer \in {"", "HP"} }

\* The "do" handler before it reaches a backend: printers that are ready,
\* faulty or missing, for a socket that may have gone
NextUnavailable ==
  \/ ServerConnect(S1)
  \/ ServerDisconnect(S1)
  \/ nextSeq < MaxDoJobs /\ \E d \in NamedJobs : News(S1, d)
  \/ \E job \in printWindow, printers \in PrinterLists : Do(job, printers)
  \/ \E b \in backend, success \in BOOLEAN : PrintCallback(b, success)

SpecUnavailable == InitWith({"", "HP"}, {"win32", "linux"}) /\ [][NextUnavailable]_vars

\* The relay side: jobs handed over by the relay, and jobs of a local socket
\* that name this node
NextRelay ==
  \/ ServerConnect(S1)
  \/ ClientConnect
  \/ \E printers \in RouteBroadcasts : PrinterList(printers)
  \/ nextSeq < MaxRouted /\ \E d \in SelfJobs : News(S1, d)
  \/ nextSeq < MaxRouted /\ \E d \in RelayTargetJobs : ClientNews(d)

SpecRelay == InitWith(DefaultPrinters, {"win32"}) /\ [][NextRelay]_vars

\* Opening the configured url at start: every maxRetries from 1 up, with and
\* without a delay, any run of failed loads, while connections come and go
NextLoad ==
  \/ \E delaySeconds \in {0, 1}, maxRetries \in 1..MaxRetries :
        LoadUrlWithRetry(delaySeconds, maxRetries)
  \/ LoadTimer
  \/ \E ok \in BOOLEAN : LoadURL(ok)
  \/ ServerConnect(S1)
  \/ ClientConnect
  \/ ClientDisconnect

\* a timer that is set runs out, and a load of the url settles
FairSpecLoad ==
  /\ Init
  /\ [][NextLoad]_vars
  /\ WF_vars(LoadTimer)
  /\ WF_vars(\E ok \in BOOLEAN : LoadURL(ok))

\* tokens a handshake may offer: none, the configured one, another
Offers == {"", "secret", "guess"}

\* The door of the local server: handshakes with and without the right
\* token, each connection with an id of its own, and what the connections
\* then send
NextAuth ==
  \/ \E s \in SocketIds, offered \in Offers : Use(s, offered)
  \/ nextSeq < MaxRouted /\ \E s \in SocketIds : News(s, Job("html", FALSE, "t1", ""))
  \/ /\ nextSeq < MaxRouted
     /\ \E s \in SocketIds, id \in FragIds :
          PrintByFragments(s, Job("html", FALSE, "t2", ""), id, 2, 0, "a")

SpecAuth == PrintPathInit({""}, {"win32"}) /\ MainInit({"", "secret"}) /\ [][NextAuth]_vars

\* Refreshing the printer list: requests of two local sockets, answered by
\* the relay early, late or not at all
NextRefresh ==
  \/ \E s \in SocketIds : ServerConnect(s)
  \/ ClientConnect
  \/ ClientDisconnect
  \/ Len(refreshes) < MaxRefreshes /\ \E s \in SocketIds : RefreshPrinterList(s)
  \/ \E i \in 1..Len(refreshes) : RefreshTimeout(i)
  \/ \E i \in 1..Len(refreshes) : OriginalHandler(i)

SpecRefresh == Init /\ [][NextRefresh]_vars

\* The directory filled by broadcasts of printers of several owners
NextDirectory ==
  \/ ClientConnect
  \/ ClientDisconnect
  \/ /\ Len(TRANSIT_PRINTERS_CACHE) < MaxDirectory
     /\ \E item \in DirItems : PrinterList(<<item>>)

SpecDirectory == Init /\ [][NextDirectory]_vars

-----------------------------------------------------------------------------
(* Properties of the execution queue *)

Range(f) == { f[i] : i \in DOMAIN f }

IsPrefix(a, b) == Len(a) <= Len(b) /\ \A i \in 1..Len(a) : a[i] = b[i]

\* jobs of the queue that have started and whose done callback has not been invoked
Executing == Range(hist.started) \ Range(hist.done)

\* jobs handed to the print window whose handling has not reached its end
Dispatched == { job.seq : job \in printWindow } \cup { b.job.seq : b \in backend }

\* terminal events emitted for submission q
Terminal(q) == { i \in 1..Len(out) : out[i].seq = q /\ out[i].ev \in {"success", "error"} }

\* outcome records logged for submission q
Logged(q) == { i \in 1..Len(printLogs) : printLogs[i].seq = q }

\* C1: a job of PRINT_RUNNER is handed to the print window only after the done
\* callback of every job started before it has been invoked, and at most one
\* job of the queue is executing at any moment.
C1_OneAtATime ==
  /\ \A k \in 1..(Len(hist.started) - 1) : hist.started[k] \in Range(hist.done)
  /\ Cardinality(Executing) <= 1
  /\ runnerRunning = Cardinality(Executing)

\* the third job has started after two done calls, while jobs were waiting
C1_Witness == Len(hist.started) = 3 /\ Len(hist.done) = 2 /\ Cardinality(Executing) = 1

\* C2 as claimed: no "print-new" dispatch, test prints included, happens while
\* another dispatched job still awaits its terminal callback.
C2_NoConcurrentDispatch == Cardinality(Dispatched) <= 1

C4_DoneAfterEveryOutcome == \A e \in hist.ended : e.seq \in Range(hist.done)

\* C5 as claimed: a job handled while its origin was connected gets exactly one
\* terminal event, with its templateId and replyId; never more than one.
C5_ExactlyOneResult ==
  /\ \A e \in hist.ended : e.socket # "" => Cardinality(Terminal(e.seq)) = 1
  /\ \A q \in 1..nextSeq : Cardinality(Terminal(q)) <= 1

\* C6 as claimed: every terminal transition logs exactly one outcome record,
\* and no error event is without a record.
C6_OneLogPerOutcome ==
  /\ \A e \in hist.ended : Cardinality(Logged(e.seq)) = 1
  /\ \A i \in 1..Len(out) : out[i].ev = "error" => Logged(out[i].seq) # {}

-----------------------------------------------------------------------------
(* Properties of the fragment assembler *)

\* jobs admitted to PRINT_RUNNER that are waiting or in the print window
Admitted == { runnerQueue[i].data : i \in DOMAIN runnerQueue } \cup printWindow

\* admitted jobs built by reassembly; the print window's copy of a job
\* carries the fields the task set, which are put aside here
FragmentJobs ==
  { [ j EXCEPT !.socketId = "", !.taskId = 0, !.clientType = "" ] :
      j \in { a \in Admitted : a.origin = "fragments" } }

\* the indices of the fragments in arrival order
Indices(arrivals) == [ i \in 1..Len(arrivals) |-> arrivals[i].index ]

\* the serial numbers of the fragments
Serials(arrivals) == { arrivals[i].seq : i \in 1..Len(arrivals) }

\* the fragments are those of indices 0..total-1, each sent once
OnceEach(arrivals, total) ==
  /\ Len(arrivals) = total
  /\ \A n \in 0..(total - 1) :
       Cardinality({ i \in 1..Len(arrivals) : arrivals[i].index = n }) = 1

\* the fragments are some of those of indices 0..total-1, none sent twice
SomeOnce(arrivals, total) ==
  /\ \A i \in 1..Len(arrivals) : arrivals[i].index \in 0..(total - 1)
  /\ \A i, j \in 1..Len(arrivals) : i # j => arrivals[i].index # arrivals[j].index

\* the chunks of indices n, n+1, ... put together
RECURSIVE InIndexOrder(_, _)
InIndexOrder(arrivals, n) ==
  IF n >= Len(arrivals) THEN ""
  ELSE arrivals[CHOOSE i \in 1..Len(arrivals) : arrivals[i].index = n].chunk
         \o InIndexOrder(arrivals, n + 1)

\* the chunks put together as they arrived
RECURSIVE InArrivalOrder(_)
InArrivalOrder(arrivals) ==
  IF arrivals = <<>> THEN "" ELSE Head(arrivals).chunk \o InArrivalOrder(Tail(arrivals))

SweptAway(id) ==
  /\ id \in DOMAIN PRINT_FRAGMENTS_MAPPING
  /\ id \notin DOMAIN PRINT_FRAGMENTS_MAPPING'
  /\ nextSeq' = nextSeq

\* C8: a set in the map does not stay there for ever: when no fragment
\* completes it the sweep removes it, only once it is older than the expiry
\* window, and the removal adds no job and emits no event.
C8_SweptQuietly ==
  /\ \A id \in FragIds :
       (id \in DOMAIN PRINT_FRAGMENTS_MAPPING) ~> (id \notin DOMAIN PRINT_FRAGMENTS_MAPPING)
  /\ [][ \A id \in FragIds :
           SweptAway(id) => /\ PRINT_FRAGMENTS_MAPPING[id].age > Expire
                            /\ UNCHANGED << runnerVars, out, printLogs >> ]_vars

\* fragments arrived, none completed a set, and the sweep has emptied the map
\* and stopped watching
C8_Witness ==
  /\ nextSeq = MaxFragments
  /\ hist.added = <<>>
  /\ PRINT_FRAGMENTS_MAPPING = <<>>
  /\ ~isWatching
  /\ out = <<>>

-----------------------------------------------------------------------------
(* Properties of routing and of the node's identity *)

\* C9 as claimed: a reassembled job is admitted to the local queue only when
\* the routing decision of "news" for its target is local execution.
C9_ReassembledRoutedLikeNews ==
  \A j \in Admitted : j.origin = "fragments" => j.route \in {"local", "default"}

\* C10 as claimed: once LOCAL_CLIENT_ID is not a provisional "local-*" value,
\* no step gives it another value.
C10_CanonicalIdKept ==
  [][ ~StartsWithLocal(LOCAL_CLIENT_ID) => LOCAL_CLIENT_ID' = LOCAL_CLIENT_ID ]_vars

-----------------------------------------------------------------------------
(* Properties of the printer directory *)

\* the directory a broadcast gives when it is processed on an empty one
FromBroadcast(printers) == ForEachItem(<<"", <<>>>>, printers)[2]

\* C11 as claimed: a step that changes the directory leaves in it exactly the
\* records derived from one broadcast, and nothing of an earlier one.
C11_ReplacedWholesale ==
  [][ TRANSIT_PRINTERS_CACHE' # TRANSIT_PRINTERS_CACHE =>
        \E printers \in Broadcasts :
          Range(TRANSIT_PRINTERS_CACHE') = Range(FromBroadcast(printers)) ]_vars

\* the indices of the entries whose raw name or origin-stripped display name is y
NamedLike(cache, y) ==
  { j \in 1..Len(cache) : \/ cache[j].originalName = y
                           \/ StripPrefix(cache[j].displayName) = y }

\* C12 as claimed: for every display name "[X] Y" of the directory the lookup
\* of "[X] Y" and the lookup of "Y" give the same record.
C12_PrefixedSameAsRaw ==
  \A i \in 1..Len(TRANSIT_PRINTERS_CACHE) :
    LET name == TRANSIT_PRINTERS_CACHE[i].displayName
    IN Includes(name) =>
         queryPrinterCache(TRANSIT_PRINTERS_CACHE, name)
           = queryPrinterCache(TRANSIT_PRINTERS_CACHE, StripPrefix(name))

\* C12 amended: the two lookups give the same record when "[X] Y" is the only
\* entry whose raw name or origin-stripped display name is Y, Y holds no "] "
\* and Y is not the node identifier of an entry.
C12_SameWhenOnlyOwner ==
  \A i \in 1..Len(TRANSIT_PRINTERS_CACHE) :
    LET name == TRANSIT_PRINTERS_CACHE[i].displayName
        y == StripPrefix(name)
    IN ( /\ Includes(name)
         /\ NamedLike(TRANSIT_PRINTERS_CACHE, y) = {i}
         /\ ~Includes(y)
         /\ \A j \in 1..Len(TRANSIT_PRINTERS_CACHE) : TRANSIT_PRINTERS_CACHE[j].clientId # y )
       => /\ queryPrinterCache(TRANSIT_PRINTERS_CACHE, name) = TRANSIT_PRINTERS_CACHE[i]
          /\ queryPrinterCache(TRANSIT_PRINTERS_CACHE, y) = TRANSIT_PRINTERS_CACHE[i]

\* the directory holds "[office] Office", the only printer shown as "Office"
\* and with another raw name, after printers of other owners
C12_Witness ==
  /\ Len(TRANSIT_PRINTERS_CACHE) = 3
  /\ TRANSIT_PRINTERS_CACHE[3].displayName = "[office] Office"
  /\ NamedLike(TRANSIT_PRINTERS_CACHE, "Office") = {3}
  /\ TRANSIT_PRINTERS_CACHE[1].clientId # TRANSIT_PRINTERS_CACHE[3].clientId
  /\ queryPrinterCache(TRANSIT_PRINTERS_CACHE, "Office").originalName = "HP"

-----------------------------------------------------------------------------
(* Properties of routing *)

\* "print-new" messages that are with the print window or wait in the queue:
\* the job, and the printer field of the message
PrintNews ==
  { [ job |-> printWindow_msg, printer |-> printWindow_msg.printer ] :
      printWindow_msg \in printWindow } \cup
  { [ job |-> runnerQueue[i].data, printer |-> runnerQueue[i].printer ] :
      i \in DOMAIN runnerQueue }

\* C13 as claimed: a job whose target was the node's identity when it came in,
\* on a local socket or from the relay, goes to the print window with the
\* configured default printer, origin prefix stripped.
C13_OwnTargetUsesDefault ==
  \A m \in PrintNews :
    m.job.route = "local" => m.printer = StripPrefix(defaultPrinter)

\* the directory resolved the target of job d to a printer of this node
OwnedHere(d) == d.resolved # NoRecord /\ d.resolved.clientId = d.self

\* the directory resolved the target of job d to a printer of another node
OwnedElsewhere(d) == d.resolved # NoRecord /\ d.resolved.clientId # d.self

\* job d names its printer by the display name of a directory record
ByDisplayName(d) == d.resolved # NoRecord /\ d.target = d.resolved.displayName

\* C14 as claimed: a job of a local socket whose target is the display name of
\* a directory record owned by this node ("[local-ip] Printer") is neither
\* rejected nor forwarded, with or without a relay, and goes to the print
\* window with the raw name of that record.
C14_OwnPrinterRunsLocally ==
  /\ \A i \in 1..Len(out) :
       ~(out[i].origin = "news" /\ ByDisplayName(out[i]) /\ OwnedHere(out[i]))
  /\ \A m \in PrintNews :
       (m.job.origin = "news" /\ ByDisplayName(m.job) /\ OwnedHere(m.job))
          => m.printer = m.job.resolved.originalName

\* C15 as claimed: a job of a local socket whose target is the display name,
\* of any length, of a directory record owned by another node, arriving while
\* the relay is not connected, is never added to PRINT_RUNNER.
C15_RemoteWithoutRelayRejected ==
  \A m \in PrintNews :
     ~(m.job.origin = "news" /\ ByDisplayName(m.job) /\ OwnedElsewhere(m.job) /\ ~m.job.relay)

\* socket.on("news", d) on socket s hands d as it came to the socket d names
\* and does nothing else
SentToPeer(s, d) ==
  /\ Len(out') = Len(out) + 1
  /\ SubSeq(out', 1, Len(out)) = out
  /\ LET e == out'[Len(out')]
     IN /\ e.to = d.printer /\ e.ev = "news"
        /\ e.printer = d.printer /\ e.client = d.client
        /\ e.replyId = d.replyId /\ e.templateId = d.templateId
  /\ UNCHANGED runnerVars

\* C16 as claimed: a job whose target is the id of a connected local socket
\* other than the submitter, arriving while the relay is connected, is
\* emitted unmodified to that socket and nothing goes to the relay, whatever
\* the directory holds.
C16_PeerBeforeRelay ==
  [][ \A s \in SocketIds, d \in PeerJobs :
        (News(s, d) /\ d.printer \in sockets /\ d.printer # s /\ clientConnected)
           => SentToPeer(s, d) ]_vars

\* C16 amended: the same for a target socket whose id is not the identity of
\* this node (a target equal to LOCAL_CLIENT_ID is executed here).
C16_PeerBeforeRelayUnlessSelf ==
  [][ \A s \in SocketIds, d \in PeerJobs :
        (News(s, d) /\ d.printer \in sockets /\ d.printer # s /\ clientConnected
           /\ d.printer # LOCAL_CLIENT_ID)
           => SentToPeer(s, d) ]_vars

C16_Witness ==
  \E i \in 1..Len(out) :
     /\ out[i].ev = "news" /\ out[i].to \in sockets /\ out[i].origin = "news"
     /\ out[i].relay /\ out[i].to # out[i].self
     /\ out[i].resolved = NoRecord /\ TRANSIT_PRINTERS_CACHE # <<>>

\* the messages emitted to the relay for jobs of the local server
ForwardedNews ==
  { out[i] : i \in { j \in 1..Len(out) :
       out[j].to = RelaySocketId /\ out[j].ev = "news" /\ out[j].origin = "news" } }

\* C17 as claimed: a job forwarded to the relay because the directory resolves
\* its target (a display name or a node identifier) to a record of another
\* node carries that owner's node identifier in client and the record's raw
\* name in printer.
C17_ForwardRewritten ==
  \A e \in ForwardedNews :
     OwnedElsewhere(e) => e.client = e.resolved.clientId /\ e.printer = e.resolved.originalName

\* the system lists a printer of that name in a state the "do" handler accepts
Usable(printers, name) ==
  \E i \in 1..Len(printers) : printers[i].name = name /\ ~PrinterError(printers[i].status)

\* C18 as claimed: a job submitted without a target is printed on the
\* configured default printer, origin prefix stripped, whenever the system has
\* that printer ready; it is not rejected as naming an unknown printer.
C18_EmptyTargetOnDefault ==
  [][ \A job \in printWindow, printers \in PrinterLists :
        (/\ Do(job, printers)
         /\ job.target = "" /\ defaultPrinter # ""
         /\ Usable(printers, StripPrefix(defaultPrinter)))
           => \E b \in backend' \ backend :
                 b.job = job /\ b.deviceName = StripPrefix(defaultPrinter) ]_vars

\* C19 as claimed: no 'print-new' message, whichever handler and branch sent
\* it, names its printer with a bracketed origin prefix.
C19_NoPrefixToPrintWindow ==
  \A m \in PrintNews : StripPrefix(m.printer) = m.printer

\* C20 as claimed: every job the local server forwards to the relay carries a
\* replyId, one being generated when the submitter gave none.
C20_ForwardCarriesReplyId ==
  \A e \in ForwardedNews : e.replyId # ""

\* the terminal events a socket received for a replyId
TerminalFor(socket, replyId) ==
  { i \in 1..Len(out) :
      out[i].to = socket /\ out[i].ev \in {"success", "error"} /\ out[i].replyId = replyId }

\* C21 as claimed: once the relay has reported the result of a forwarded job,
\* the local socket that submitted the job has received exactly one terminal
\* event for its replyId.
C21_ReportReachesOrigin ==
  \A r \in hist.reported : Cardinality(TerminalFor(r.from, r.replyId)) = 1

\* the tasks PRINT_RUNNER holds or has handed to the print window
TasksHeld(queue, window) == Len(queue) + Cardinality(window)

\* the handler added one task to PRINT_RUNNER and emitted nothing
QueuedOnce ==
  /\ TasksHeld(runnerQueue', printWindow') = TasksHeld(runnerQueue, printWindow) + 1
  /\ out' = out

\* the handler emitted one event, ev to socket to, and added no task
EmittedOnce(to, ev) ==
  /\ Len(out') = Len(out) + 1
  /\ SubSeq(out', 1, Len(out)) = out
  /\ out'[Len(out')].to = to /\ out'[Len(out')].ev = ev
  /\ UNCHANGED << runnerQueue, runnerRunning, PRINT_RUNNER_DONE, printWindow, nextTaskId >>

\* C22: a 'news' submission on a local socket is consumed exactly once: one
\* task added to PRINT_RUNNER, or the job emitted to one connected socket, or
\* the job emitted to the relay, or one 'error' emitted to the submitter; a
\* rejection leaves PRINT_RUNNER, PRINT_RUNNER_DONE and the directory as they
\* were.
C22_ConsumedOnce ==
  [][ \A s \in SocketIds, d \in PeerJobs :
        News(s, d) =>
          /\ \/ QueuedOnce
             \/ \E to \in sockets \ {s} : EmittedOnce(to, "news")
             \/ EmittedOnce(RelaySocketId, "news")
             \/ EmittedOnce(s, "error")
          /\ UNCHANGED TRANSIT_PRINTERS_CACHE ]_vars

C22_Witness ==
  /\ \E i \in 1..Len(out) : out[i].ev = "error" /\ out[i].to = out[i].from
  /\ TasksHeld(runnerQueue, printWindow) = 1
  /\ TRANSIT_PRINTERS_CACHE # <<>>

\* the printer has been confirmed ready for job seq: checkPrinterStatus has
\* emitted its 'success'
ConfirmedReady(seq) == \E i \in 1..Len(out) : out[i].ev = "success" /\ out[i].seq = seq

\* C23 as claimed: while checkPrinterStatus is still waiting for the printer
\* of a url_pdf or blob_pdf job, the done callback of that job has not been
\* invoked and no later job has started.
C23_DoneWhenPrinterReady ==
  \A p \in polls :
     ~ConfirmedReady(p.job.seq) =>
        /\ p.job.seq \notin Range(hist.done)
        /\ \A k \in 1..Len(hist.started) : hist.started[k] <= p.job.seq

\* C24 as claimed: the entry of a task leaves PRINT_RUNNER_DONE as soon as its
\* done callback has been invoked, so the map is empty whenever the queue is
\* idle and never holds more than the entry of the executing job.
C24_DoneMapHoldsOnlyRunning ==
  /\ (runnerRunning = 0 /\ runnerQueue = <<>>) => PRINT_RUNNER_DONE = {}
  /\ Cardinality(PRINT_RUNNER_DONE) <= 1

\* C25 as claimed: when the completion path runs again for a job whose done
\* callback was already invoked, nothing is thrown and done is not invoked a
\* second time.
C25_SecondCompletionIsNoOp ==
  /\ hist.threw = {}
  /\ \A i, j \in 1..Len(hist.done) : hist.done[i] = hist.done[j] => i = j

\* the name of the first printer the system marks as its default, "" if none
SystemDefault(printers) ==
  LET defaults == { i \in 1..Len(printers) : printers[i].isDefault }
  IN IF defaults = {} THEN ""
     ELSE printers[CHOOSE i \in defaults : \A j \in defaults : i <= j].name

\* the printer the "do" handler resolves for a job: the one the job names,
\* else the configured default, else the system default
ResolvedPrinter(job, printers) ==
  IF job.printer # "" THEN job.printer
  ELSE IF defaultPrinter # "" THEN defaultPrinter
  ELSE SystemDefault(printers)

\* the resolved printer is not in the system's list, or is there with an
\* error status
Unavailable(job, printers) ==
  LET name == ResolvedPrinter(job, printers)
      found == { i \in 1..Len(printers) : printers[i].name = name }
  IN found = {} \/ \E i \in found : PrinterError(printers[i].status)

\* what "do" does for a job whose printer is unavailable, apart from the
\* report: no backend call, the job is not queued again, done is invoked and
\* the next queued job starts
GivenUp(job) ==
  /\ backend' = backend
  /\ job \notin printWindow'
  /\ \A i \in 1..Len(runnerQueue') : runnerQueue'[i].data.seq # job.seq
  /\ hist'.done = Append(hist.done, job.seq)
  /\ runnerQueue # <<>> => hist'.started = Append(hist.started, Head(runnerQueue).data.seq)

\* one 'error' for the job went to socket and nothing else was emitted
OneError(socket, job) ==
  /\ Len(out') = Len(out) + 1
  /\ SubSeq(out', 1, Len(out)) = out
  /\ out'[Len(out')].to = socket /\ out'[Len(out')].ev = "error"
  /\ out'[Len(out')].seq = job.seq

C27_CountBelowTotal ==
  \A id \in DOMAIN PRINT_FRAGMENTS_MAPPING :
     PRINT_FRAGMENTS_MAPPING[id].count < PRINT_FRAGMENTS_MAPPING[id].total

\* the slots of a fragments array that hold a chunk
Filled(fragments) == { i \in 1..Len(fragments) : fragments[i] # <<>> }

\* C28 as claimed: the count of a set is the number of its filled slots, and
\* a job is reassembled only from fragments that cover every index from 0 to
\* total - 1: an index sent again does not bring completion closer.
C28_CountIsFilledSlots ==
  /\ \A id \in DOMAIN PRINT_FRAGMENTS_MAPPING :
       PRINT_FRAGMENTS_MAPPING[id].count =
          Cardinality(Filled(PRINT_FRAGMENTS_MAPPING[id].fragments))
  /\ \A m \in PrintNews :
       m.job.origin = "fragments" =>
          { m.job.arrivals[i].index : i \in 1..Len(m.job.arrivals) }
             = 0..(Len(m.job.arrivals) - 1)

\* C29 as claimed: a sweep timer is armed only when PRINT_FRAGMENTS_MAPPING
\* holds a set (a fragment that completes its job and leaves the map empty
\* arms none), and when a sweep leaves the map empty no timer is pending.
C29_ArmedOnlyWithSets ==
  [][ /\ (~isWatching /\ isWatching') => DOMAIN PRINT_FRAGMENTS_MAPPING' # {}
      /\ (isWatching /\ ~isWatching') => watchTimers' = <<>> ]_vars

\* the sets whose last fragment came more than the expiry window ago
Stale ==
  { id \in DOMAIN PRINT_FRAGMENTS_MAPPING : PRINT_FRAGMENTS_MAPPING[id].age >= Expire + 1 }

LookupItems ==
  { Item(shown[1], shown[2], id, nickName, OtherIp) :
      shown \in { <<"HP", "Office">>, <<"Zebra", "">> },
      id \in {NodeA, NodeB}, nickName \in {"", "office"} }

\* The directory as the lookups see it, filled one broadcast at a time
NextLookup ==
  \/ ClientConnect
  \/ ClientDisconnect
  \/ /\ Len(TRANSIT_PRINTERS_CACHE) < MaxDirectory
     /\ \E item \in LookupItems : PrinterList(<<item>>)

SpecLookup == Init /\ [][NextLookup]_vars

\* targets looked up in the directory: nothing, raw names, display names that
\* are and are not keys, node identifiers, and a long display name of an
\* unknown origin
LookupTargets ==
  { "", "HP", "Zebra", "Office", "Epson", NodeA, NodeB, "[10.0.0.2] Office", "[office] HP",
    "[10.0.0.2] Zebra", "[office] Office", "[10.0.0.9] Zebra" }

\* the first record of the directory owned by node id, NoRecord if none
RECURSIVE FirstOwnedBy(_, _)
FirstOwnedBy(cache, id) ==
  IF cache = <<>> THEN NoRecord
  ELSE IF Head(cache).clientId = id THEN Head(cache)
  ELSE FirstOwnedBy(Tail(cache), id)

\* the first record of the directory whose raw name, or display name without
\* its origin tag, is name; NoRecord if none
RECURSIVE FirstNamed(_, _)
FirstNamed(cache, name) ==
  IF cache = <<>> THEN NoRecord
  ELSE IF \/ Head(cache).originalName = name
          \/ StripPrefix(Head(cache).displayName) = name
       THEN Head(cache)
  ELSE FirstNamed(Tail(cache), name)

\* the reference lookup: the three attempts in order, each tried when the one
\* before found nothing
ReferenceLookup(cache, target) ==
  LET keyed == { r \in Range(cache) : r.displayName = target }
      owned == IF Len(target) >= ClientIdMinLen THEN FirstOwnedBy(cache, target)
               ELSE NoRecord
  IN IF keyed # {} THEN CHOOSE r \in keyed : TRUE
     ELSE IF owned # NoRecord THEN owned
     ELSE FirstNamed(cache, StripPrefix(target))

\* C31: for every directory and every target queryPrinterCache returns what
\* the reference lookup returns: the record keyed by the target; else, for a
\* target of 15 characters or more, a record owned by the node of that name;
\* else a record whose raw name or stripped display name is the stripped
\* target; null when nothing matches.
C31_LookupIsReference ==
  \A target \in LookupTargets :
     queryPrinterCache(TRANSIT_PRINTERS_CACHE, target)
        = ReferenceLookup(TRANSIT_PRINTERS_CACHE, target)

C31_Witness ==
  /\ queryPrinterCache(TRANSIT_PRINTERS_CACHE, NodeB).clientId = NodeB
  /\ queryPrinterCache(TRANSIT_PRINTERS_CACHE, "[10.0.0.9] Zebra").originalName = "Zebra"
  /\ queryPrinterCache(TRANSIT_PRINTERS_CACHE, "[office] Office").displayName = "[office] Office"
  /\ queryPrinterCache(TRANSIT_PRINTERS_CACHE, "Epson") = NoRecord

\* C32: every record of the directory gives back its raw name when the origin
\* tag (everything up to and including the first "] ") is taken off its
\* display name, whatever the broadcast item and its owner's nickname or
\* address were.
C32_StripsToRawName ==
  \A i \in 1..Len(TRANSIT_PRINTERS_CACHE) :
     StripPrefix(TRANSIT_PRINTERS_CACHE[i].displayName)
        = TRANSIT_PRINTERS_CACHE[i].originalName

\* jobs of a local socket for targets the directory may or may not know: raw
\* and display names shorter than a node identifier, a node, a long display
\* name
UnresolvedJobs ==
  { MkData("html", printer, "", "t1", "rid-1", FALSE) :
      printer \in {"HP", "[10.0.0.2] HP", NodeB, "[10.0.0.9] Zebra"} }

\* Routing of targets the directory has not heard of, before and after a
\* broadcast, with the relay connected or not
NextUnresolved ==
  \/ ServerConnect(S1)
  \/ ClientConnect
  \/ ClientDisconnect
  \/ PrinterList(<< Item("HP", "", NodeB, "", OtherIp) >>)
  \/ nextSeq < MaxRouted /\ \E d \in UnresolvedJobs : News(S1, d)

SpecUnresolved == Init /\ [][NextUnresolved]_vars

\* socket.on("news", d) arrives while the relay is connected and the
\* directory has no record for the target d names
UnresolvedWithRelay(d) ==
  /\ clientConnected
  /\ d.printer # ""
  /\ queryPrinterCache(TRANSIT_PRINTERS_CACHE, d.printer) = NoRecord

\* the handler sent one more "news" to the relay
ForwardedNow == Len(out') = Len(out) + 1 /\ out'[Len(out')].to = RelaySocketId
                                         /\ out'[Len(out')].ev = "news"

\* the handler answered its socket s with one more "error"
RejectedNow(s) == Len(out') = Len(out) + 1 /\ out'[Len(out')].to = s
                                           /\ out'[Len(out')].ev = "error"

\* a job forwarded for a target without a record has a target of 15
\* characters or more and carries it as it came as the routing key
ForwardOnlyIfLong(d) ==
  ForwardedNow => /\ Len(d.printer) >= ClientIdMinLen
                  /\ out'[Len(out')].client = d.printer

\* C33 as claimed: with the relay connected and no record for the target, a
\* job of a local socket is forwarded with the target as routing key only if
\* the target has 15 characters or more, and a shorter target is answered
\* with an error event.
C33_ShortUnresolvedRejected ==
  [][ \A s \in SocketIds, d \in UnresolvedJobs :
        (News(s, d) /\ UnresolvedWithRelay(d))
           => /\ ForwardOnlyIfLong(d)
              /\ Len(d.printer) < ClientIdMinLen => RejectedNow(s) ]_vars

\* C33 amended: the same, but the shorter target is not answered with an
\* error: the job is added to PRINT_RUNNER for this node and nothing is sent.
C33_ShortUnresolvedRunsHere ==
  [][ \A s \in SocketIds, d \in UnresolvedJobs :
        (News(s, d) /\ UnresolvedWithRelay(d))
           => /\ ForwardOnlyIfLong(d)
              /\ Len(d.printer) < ClientIdMinLen
                   => /\ out' = out
                      /\ hist'.added = Append(hist.added, nextSeq') ]_vars

C33_Witness ==
  /\ \E m \in PrintNews :
        /\ m.job.origin = "news" /\ m.job.relay /\ m.job.resolved = NoRecord
        /\ m.job.target = "HP" /\ m.printer = "HP"
  /\ \E e \in ForwardedNews :
        e.relay /\ e.resolved = NoRecord /\ e.client = e.target /\ e.target = NodeB

C35_SetsAreWatched ==
  DOMAIN PRINT_FRAGMENTS_MAPPING # {} => watchTimers # <<>>

\* a set that has lived through a sweep, and the timer the sweep armed
C35_Witness ==
  /\ \E id \in DOMAIN PRINT_FRAGMENTS_MAPPING :
        PRINT_FRAGMENTS_MAPPING[id].age = CheckInterval + 1
  /\ watchTimers # <<>>

\* C40: at most one sweep timer is pending at any time, and isWatching is
\* true exactly when one is pending, however 'printByFragments' events and
\* sweeps interleave.
C40_OneTimerWhileWatching ==
  /\ Len(watchTimers) <= 1
  /\ isWatching <=> watchTimers # <<>>

\* a fragment arrived while a sweep was pending, and a sweep has since run,
\* kept a set and armed the next one
C40_Witness ==
  /\ isWatching
  /\ Len(watchTimers) = 1
  /\ Cardinality(DOMAIN PRINT_FRAGMENTS_MAPPING) = 2
  /\ \E id \in DOMAIN PRINT_FRAGMENTS_MAPPING :
        PRINT_FRAGMENTS_MAPPING[id].age > CheckInterval

\* C36: a job whose origin socket had gone when "do" looked for it is still
\* brought to its end without a raise, nothing is emitted for it, and its done
\* callback is invoked, on every completion path.
C36_OrphanStillCompletes ==
  \A e \in hist.ended :
     e.socket = "" => /\ e.seq \in Range(hist.done)
                      /\ e.seq \notin hist.threw
                      /\ Terminal(e.seq) = {}

\* what the relay hands over: jobs that name a printer, this node, another
\* node or the relay connection itself, in client or in printer, with and
\* without a replyId
ReceivedJobs ==
  { MkData("html", printer, client, "t3", replyId, FALSE) :
      printer \in {"HP", NodeB},
      client \in {"", NodeA, NodeB, RelaySocketId},
      replyId \in {"", "rid-1"} }

\* Jobs received from the relay while the node takes its identity from a
\* local connection or from a broadcast
NextReceipt ==
  \/ ServerConnect(S1)
  \/ ClientConnect
  \/ PrinterList(<< Item("HP", "", NodeA, "", LocalIp) >>)
  \/ nextSeq < MaxRouted /\ \E d \in ReceivedJobs : ClientNews(d)

SpecReceipt == Init /\ [][NextReceipt]_vars

\* the target of a job the relay hands over: data.client || data.printer
ReceiptTarget(d) == IF d.client # "" THEN d.client ELSE d.printer

\* the target names a node that is neither this node nor the relay connection
NamesOtherNode(d) ==
  /\ Len(ReceiptTarget(d)) >= ClientIdMinLen
  /\ ReceiptTarget(d) # LOCAL_CLIENT_ID
  /\ ReceiptTarget(d) # RelaySocketId

\* C37: a job received from the relay is sent back to the relay at most once,
\* and only when its target (data.client, else data.printer) has 15
\* characters or more and is neither LOCAL_CLIENT_ID nor the id of the relay
\* connection; in every other case it is added to PRINT_RUNNER once and
\* nothing is sent to the relay.
C37_ForwardOnlyToOtherNode ==
  [][ \A d \in ReceivedJobs :
        ClientNews(d) =>
          /\ Len(out') <= Len(out) + 1
          /\ out' # out => /\ NamesOtherNode(d)
                           /\ out'[Len(out')].to = RelaySocketId
                           /\ out'[Len(out')].ev = "news"
                           /\ hist'.added = hist.added
          /\ ~NamesOtherNode(d) => /\ out' = out
                                   /\ hist'.added = Append(hist.added, nextSeq') ]_vars

\* one job went back to the relay for another node, and one that named the
\* relay connection itself is held by PRINT_RUNNER
C37_Witness ==
  /\ \E i \in 1..Len(out) :
        /\ out[i].to = RelaySocketId /\ out[i].ev = "news"
        /\ out[i].origin = "clientnews" /\ out[i].target = NodeB
  /\ \E m \in PrintNews :
        m.job.origin = "clientnews" /\ m.job.target = RelaySocketId

\* nothing the node holds came from connection s: no task of PRINT_RUNNER, no
\* job in the print window, no fragment of a set, and s is not the identity
Untouched(s) ==
  /\ s \notin sockets
  /\ LOCAL_CLIENT_ID # s
  /\ \A i \in DOMAIN runnerQueue : runnerQueue[i].socketId # s
  /\ \A msg \in printWindow : msg.socketId # s
  /\ \A id \in DOMAIN PRINT_FRAGMENTS_MAPPING :
       \A k \in 1..Len(PRINT_FRAGMENTS_MAPPING[id].arrivals) :
          PRINT_FRAGMENTS_MAPPING[id].arrivals[k].from # s

\* C38: with a token configured, a connection whose handshake token differs is
\* refused by the middleware and never reaches 'connect': it enqueues no job,
\* creates no fragment set and does not change LOCAL_CLIENT_ID.
C38_WrongTokenKeptOut ==
  /\ [](\A s \in refused : Untouched(s))
  /\ [][ \A s \in SocketIds, offered \in Offers :
           (Use(s, offered) /\ token # "" /\ offered # token)
              => /\ s \in refused'
                 /\ UNCHANGED << sockets, LOCAL_CLIENT_ID, PRINT_FRAGMENTS_MAPPING,
                                 runnerVars, out >> ]_vars

\* one connection was turned away while the other came in, took the identity
\* and has a job and a fragment set on the node
C38_Witness ==
  /\ token = "secret"
  /\ refused # {} /\ sockets # {}
  /\ LOCAL_CLIENT_ID \in sockets
  /\ printWindow # {}
  /\ DOMAIN PRINT_FRAGMENTS_MAPPING # {}

\* loadUrlWithRetry has returned
Returned == loadUrl.pc = "returned"

====
